---------------------------- MODULE Spec2Model ----------------------------
(***************************************************************************)
(* A model of the opportunity discovery and evaluation pipeline of the     *)
(* arbitrage bot: the profit calculator (profitCalculator.js), the         *)
(* best-hop quoter, the path evaluator and the consensus checker           *)
(* (opportunityScanner.js) and the path generator (pathGenerator.js).      *)
(*                                                                         *)
(* Amounts are JavaScript BigInt values.  TLC's integers are 32 bits wide, *)
(* so the inputs are drawn from sets whose products stay in that range;    *)
(* BigIntMulDiv computes a product followed by a division without forming  *)
(* the product.                                                            *)
(***************************************************************************)
EXTENDS Integers, Sequences, FiniteSets, TLC

VARIABLES
    \* calculateNetProfit as a pure function: its arguments and its result
    calcIn, calcOut,
    \* getBestHopQuote as a pure function of the adapters' answers
    hqIn, hqOut,
    \* checkConsensus as a pure function of the quotes handed to it
    ccIn, ccOut,
    \* PathGenerator: the object's fields, the lists two runs returned, and for
    \* each run the paths it accumulated and the hubs it searched
    tokenDatabase, flashLoanAssets, graph, pathRuns, genLog,
    \* evaluatePath: arguments, configuration, locals, position and result
    pathHops, initialAmount, config, pc, hopIdx, currentAmount, quote,
    executedHops, tokens, netProfit, result, trace,
    \* bot.js: the module's isRunning and scanCount, whether the process has
    \* exited, the scan loop's position, the paths it was started with,
    \* scanAllPaths' batch offset, the settlement of the batch's evaluations and
    \* its opportunities list, and a log of the current cycle
    isRunning, exited, scanCount, botPc, scanPaths, batchStart, settled,
    opportunities, cycleLog,
    \* zScoreEngine.js: the price series computeZScore works on, and the
    \* results of computeZScore and isHighConviction
    zIn, zOut,
    \* BaseAlphaArb.sol: the chain state the contract touches (the balances
    \* of the asset of the contract, the aggregator and the owner, the
    \* allowance the contract has given the aggregator, the ArbExecuted and
    \* Withdrawn events emitted) and the last transaction with its outcome
    chain, lastCall,
    \* the transaction sender: the module's nonce, config.maxGasPriceGwei, the
    \* transaction count the network reports for the wallet, the calls of
    \* sendPrivateTransaction and resetNonce in progress, the number of
    \* calls started and of nonce resets done, the nonces handed out and the
    \* transactions passed to wallet.sendTransaction
    nonce, maxGasPriceGwei, walletCount, sendCalls, sendStarted, resets,
    nonceLog, sendLog

calcVars == <<calcIn, calcOut>>
quoteVars == <<hqIn, hqOut>>
consVars == <<ccIn, ccOut>>
genVars == <<tokenDatabase, flashLoanAssets, graph, pathRuns, genLog>>
evalVars == <<pathHops, initialAmount, config, pc, hopIdx, currentAmount,
              quote, executedHops, tokens, netProfit, result, trace>>
botVars == <<isRunning, exited, scanCount, botPc, scanPaths, batchStart, settled,
             opportunities, cycleLog>>
zVars == <<zIn, zOut>>
arbVars == <<chain, lastCall>>
txVars == <<nonce, maxGasPriceGwei, walletCount, sendCalls, sendStarted, resets,
            nonceLog, sendLog>>
vars == <<calcVars, quoteVars, consVars, genVars, evalVars, botVars, zVars, arbVars, txVars>>

\* JavaScript's null / undefined is the empty sequence, a value v is <<v>>
Null == <<>>
Some(v) == <<v>>

Abs(x) == IF x < 0 THEN -x ELSE x

Max(a, b) == IF a >= b THEN a ELSE b

\* BigInt division truncates toward zero (b /= 0; b = 0 is a RangeError,
\* which the callers model)
BigIntDiv(a, b) ==
    LET q == Abs(a) \div Abs(b)
    IN  IF (a >= 0) = (b > 0) THEN q ELSE -q

\* [q, rem] with r * g = q * n + rem and rem < n, for 0 <= r < n and g >= 0,
\* by halving g, so that no intermediate value exceeds 3 * n
RECURSIVE MulDivNat(_, _, _)
MulDivNat(r, g, n) ==
    IF g = 0 THEN [q |-> 0, rem |-> 0]
    ELSE LET h == MulDivNat(r, g \div 2, n)
             t == (2 * h.rem) + ((g % 2) * r)
         IN  [q |-> (2 * h.q) + (t \div n), rem |-> t % n]

\* (a * f) / d on BigInt for d /= 0, truncated toward zero, without forming
\* a * f
BigIntMulDiv(a, f, d) ==
    LET m == Abs(a)
        g == Abs(f)
        n == Abs(d)
        q == ((m \div n) * g) + MulDivNat(m % n, g, n).q
    IN  IF ((a < 0) /= (f < 0)) /= (d < 0) THEN -q ELSE q

RECURSIVE Pow2(_)
Pow2(k) == IF k = 0 THEN 1 ELSE 2 * Pow2(k - 1)

(***************************************************************************)
(* IEEE 754 double arithmetic, exact.  A double's 53-bit mantissa does not *)
(* fit TLC's integers, so a non-negative integer is held as the sequence   *)
(* of its digits in base 2^14, lowest first, without leading zeros (0 is   *)
(* the empty sequence), and a double v is held as the integer v * 2^72.    *)
(***************************************************************************)
Limb == 16384
LimbBits == 14
DoubleScale == 72
DoubleBits == 53

RECURSIVE BigOfNat(_)
BigOfNat(n) == IF n = 0 THEN <<>> ELSE <<n % Limb>> \o BigOfNat(n \div Limb)

RECURSIVE BigToNat(_)
BigToNat(a) == IF a = <<>> THEN 0 ELSE a[1] + (Limb * BigToNat(Tail(a)))

RECURSIVE BigTrim(_)
BigTrim(a) ==
    IF a /= <<>> /\ a[Len(a)] = 0 THEN BigTrim(SubSeq(a, 1, Len(a) - 1)) ELSE a

BigLimb(a, i) == IF i <= Len(a) THEN a[i] ELSE 0

RECURSIVE BigMulFrom(_, _, _, _)
BigMulFrom(a, k, i, carry) ==
    IF i > Len(a) THEN BigOfNat(carry)
    ELSE LET t == (a[i] * k) + carry
         IN  <<t % Limb>> \o BigMulFrom(a, k, i + 1, t \div Limb)

\* a * k, for 0 <= k <= 100000
BigMulSmall(a, k) == BigTrim(BigMulFrom(a, k, 1, 0))

RECURSIVE BigDivFrom(_, _, _, _)
BigDivFrom(a, k, i, rem) ==
    IF i = 0 THEN <<>>
    ELSE LET t == (rem * Limb) + a[i]
         IN  BigDivFrom(a, k, i - 1, t % k) \o <<t \div k>>

\* a \div k, for 0 < k <= 100000
BigDivSmall(a, k) == BigTrim(BigDivFrom(a, k, Len(a), 0))

RECURSIVE BigModFrom(_, _, _, _)
BigModFrom(a, k, i, rem) ==
    IF i = 0 THEN rem ELSE BigModFrom(a, k, i - 1, ((rem * Limb) + a[i]) % k)

\* a % k, for 0 < k <= 100000
BigModSmall(a, k) == BigModFrom(a, k, Len(a), 0)

RECURSIVE BigAddFrom(_, _, _, _)
BigAddFrom(a, b, i, carry) ==
    IF i > Len(a) /\ i > Len(b) THEN BigOfNat(carry)
    ELSE LET t == BigLimb(a, i) + BigLimb(b, i) + carry
         IN  <<t % Limb>> \o BigAddFrom(a, b, i + 1, t \div Limb)

BigAdd(a, b) == BigTrim(BigAddFrom(a, b, 1, 0))

RECURSIVE BigSubFrom(_, _, _, _)
BigSubFrom(a, b, i, borrow) ==
    IF i > Len(a) THEN <<>>
    ELSE LET t == (a[i] - BigLimb(b, i)) - borrow
         IN  <<t % Limb>> \o BigSubFrom(a, b, i + 1, IF t < 0 THEN 1 ELSE 0)

\* a - b, for a >= b
BigSub(a, b) == BigTrim(BigSubFrom(a, b, 1, 0))

RECURSIVE BigLessFrom(_, _, _)
BigLessFrom(a, b, i) ==
    IF i = 0 THEN FALSE
    ELSE IF a[i] /= b[i] THEN a[i] < b[i]
    ELSE BigLessFrom(a, b, i - 1)

\* a < b
BigLess(a, b) ==
    IF Len(a) /= Len(b) THEN Len(a) < Len(b) ELSE BigLessFrom(a, b, Len(a))

\* a * 2^t
BigShiftLeft(a, t) ==
    IF a = <<>> THEN <<>>
    ELSE [i \in 1 .. (t \div LimbBits) |-> 0] \o BigMulSmall(a, Pow2(t % LimbBits))

\* a \div 2^t
BigShiftRight(a, t) ==
    IF t \div LimbBits >= Len(a) THEN <<>>
    ELSE BigDivSmall(SubSeq(a, (t \div LimbBits) + 1, Len(a)), Pow2(t % LimbBits))

\* a % 2^t = 0
BigLowBitsZero(a, t) ==
    /\ \A i \in 1 .. (t \div LimbBits) : BigLimb(a, i) = 0
    /\ BigLimb(a, (t \div LimbBits) + 1) % Pow2(t % LimbBits) = 0

BigOdd(a) == BigLimb(a, 1) % 2 = 1

RECURSIVE BitLength(_)
BitLength(n) == IF n = 0 THEN 0 ELSE 1 + BitLength(n \div 2)

\* the number of bits of a
BigBitLength(a) ==
    IF a = <<>> THEN 0 ELSE (LimbBits * (Len(a) - 1)) + BitLength(a[Len(a)])

RECURSIVE BigMulAcc(_, _, _)
BigMulAcc(a, b, i) ==
    IF i > Len(b) THEN <<>>
    ELSE BigAdd(BigMulSmall(a, b[i]), <<0>> \o BigMulAcc(a, b, i + 1))

\* a * b
BigMul(a, b) == BigTrim(BigMulAcc(a, b, 1))

\* long division by d, a binary digit at a time: st.q holds the digits so
\* far, st.rem < d what they left and st.bits how many digits are to come;
\* the result has st.bits = 0
RECURSIVE BigDivBits(_, _)
BigDivBits(st, d) ==
    IF st.bits = 0 THEN st
    ELSE LET doubled == BigShiftLeft(st.rem, 1)
             fits == ~BigLess(doubled, d)
         IN  BigDivBits([rem |-> IF fits THEN BigSub(doubled, d) ELSE doubled,
                         q |-> BigAdd(BigShiftLeft(st.q, 1), IF fits THEN <<1>> ELSE <<>>),
                         bits |-> st.bits - 1], d)

\* the integer square root digit by digit: rem is what is left of the
\* radicand, res the root so far, bit a power of 4 (0 at the end): [root, rem]
RECURSIVE BigSqrtFrom(_, _, _)
BigSqrtFrom(rem, res, bit) ==
    IF bit = <<>> THEN [root |-> res, rem |-> rem]
    ELSE LET t == BigAdd(res, bit)
             half == BigShiftRight(res, 1)
         IN  IF BigLess(rem, t) THEN BigSqrtFrom(rem, half, BigShiftRight(bit, 2))
             ELSE BigSqrtFrom(BigSub(rem, t), BigAdd(half, bit), BigShiftRight(bit, 2))

\* floor(sqrt(x)) and x - floor(sqrt(x))^2, for x > 0
BigSqrt(x) ==
    BigSqrtFrom(x, <<>>, BigShiftLeft(<<1>>, 2 * ((BigBitLength(x) - 1) \div 2)))

\* The double nearest to a value whose integer part (at the scale) is q and
\* whose remaining fraction is nonzero exactly when inexact holds: round to
\* nearest, ties to the even mantissa.
DoubleRound(q, inexact) ==
    LET s == BigBitLength(q) - DoubleBits
    IN  IF s <= 0 THEN q
        ELSE LET kept == BigShiftRight(q, s)
                 half == BigOdd(BigShiftRight(q, s - 1))
                 rest == inexact \/ ~BigLowBitsZero(q, s - 1)
                 up == half /\ (rest \/ BigOdd(kept))
             IN  BigShiftLeft(IF up THEN BigAdd(kept, <<1>>) ELSE kept, s)

\* Math.round of the double sign * (z / 2^72): the nearest integer, halves
\* toward +Infinity
MathRound(negative, z) ==
    LET half == BigShiftLeft(<<1>>, DoubleScale - 1)
    IN  IF ~negative THEN BigToNat(BigShiftRight(BigAdd(z, half), DoubleScale))
        ELSE IF ~BigLess(half, z) THEN 0
        ELSE LET above == BigSub(z, half)
                 q == BigToNat(BigShiftRight(above, DoubleScale))
             IN  -(IF BigLowBitsZero(above, DoubleScale) THEN q ELSE q + 1)

(***************************************************************************)
(* profitCalculator.js                                                     *)
(***************************************************************************)

\* config.slippageBuffer is a double; the model holds the decimal it was
\* written as, in units of 10^-5 (a tenth of a basis point).  Where the
\* whole configuration field is meant, Null is a field config.json does not
\* have (undefined) and Some(n) a number; a JSON null behaves as the number 0
\* in every expression the field appears in (1 - null is 1, null || 0.003
\* is 0.003) and is held as Some(0).
SlippageUnit == 100000

\* (mutant: the slippage buffer is ignored)
SlippageFactorMut(slippageBuffer) == 10000

\* Math.round((1 - config.slippageBuffer) * 10000), each step in doubles:
\* the double nearest to the decimal, the subtraction from 1 rounded, the
\* product with 10000 rounded, then Math.round.
SlippageFactor(slippageBuffer) ==
    LET one == BigShiftLeft(<<1>>, DoubleScale)
        scaled == BigMulSmall(one, Abs(slippageBuffer))
        x == DoubleRound(BigDivSmall(scaled, SlippageUnit),
                         BigModSmall(scaled, SlippageUnit) /= 0)
        negative == slippageBuffer > 0 /\ BigLess(one, x)
        difference == IF slippageBuffer < 0 THEN BigAdd(one, x)
                      ELSE IF negative THEN BigSub(x, one)
                      ELSE BigSub(one, x)
        y == DoubleRound(difference, FALSE)
        z == DoubleRound(BigMulSmall(y, 10000), FALSE)
    IN  MathRound(negative, z)

\* (mutant: the slippage share is subtracted after its own division)
calculateNetProfitFloorMut(grossOutput, borrowedAmount, gasEstimate, slippageBuffer) ==
    LET premium == BigIntDiv(borrowedAmount * 9, 10000)
        repayAmount == borrowedAmount + premium
        slippageAdjustedOutput ==
            grossOutput - BigIntMulDiv(grossOutput, 10000 - SlippageFactor(slippageBuffer[1]), 10000)
        np == slippageAdjustedOutput - repayAmount - gasEstimate
    IN  IF slippageBuffer = Null
        THEN [threw |-> TRUE, netProfit |-> 0, profitPercent |-> 0,
              repayAmount |-> repayAmount, premium |-> premium]
        ELSE [threw |-> FALSE,
              netProfit |-> np,
              profitPercent |-> BigIntMulDiv(np, 10000, borrowedAmount),
              repayAmount |-> repayAmount,
              premium |-> premium]

\* slippageBuffer is config.slippageBuffer, Null or Some(n), and
\* borrowedAmount is not 0.  With the field undefined 1 - undefined is NaN and
\* BigInt(NaN) throws a RangeError: threw, and nothing is returned.
\* profitPercent is kept as the BigInt (netProfit * 10000n) / borrowedAmount,
\* that is in hundredths of a percent; the code returns Number(it) / 100.
calculateNetProfit(grossOutput, borrowedAmount, gasEstimate, slippageBuffer) ==
    LET premium == BigIntDiv(borrowedAmount * 9, 10000)
        repayAmount == borrowedAmount + premium
        slippageFactor == SlippageFactor(slippageBuffer[1])
        slippageAdjustedOutput == BigIntMulDiv(grossOutput, slippageFactor, 10000)
        np == slippageAdjustedOutput - repayAmount - gasEstimate
    IN  IF slippageBuffer = Null
        THEN [threw |-> TRUE, netProfit |-> 0, profitPercent |-> 0,
              repayAmount |-> repayAmount, premium |-> premium]
        ELSE [threw |-> FALSE,
              netProfit |-> np,
              profitPercent |-> BigIntMulDiv(np, 10000, borrowedAmount),
              repayAmount |-> repayAmount,
              premium |-> premium]


(***************************************************************************)
(* opportunityScanner.js: getBestHopQuote                                  *)
(*                                                                         *)
(* A quote is [venue, toTokenAmount, pathId].  toTokenAmount is what the   *)
(* adapter put in the field:                                               *)
(*   [k |-> "num", v |-> n]     the decimal string of the integer n        *)
(*                              ("0" included, a truthy string; a string   *)
(*                              of blanks is truthy and converts to 0n,    *)
(*                              as "0" does)                               *)
(*   [k |-> "number", v |-> n]  the JavaScript number n, an integer        *)
(*   [k |-> "empty"]            the string "" (falsy; BigInt("") is 0n)    *)
(*   [k |-> "missing"]          undefined or null (falsy; BigInt() throws  *)
(*                              a TypeError); NaN, which no JSON body      *)
(*                              carries, is falsy and rejected by BigInt() *)
(*                              likewise                                   *)
(*   [k |-> "malformed"]        a truthy value BigInt() rejects: a string  *)
(*                              that is no integer literal (SyntaxError)   *)
(*                              or a number with a fraction (RangeError)   *)
(* pathId tells whether an Odos quote carries a pathId.                    *)
(***************************************************************************)
Num(n) == [k |-> "num", v |-> n]
JsNumber(n) == [k |-> "number", v |-> n]
Empty == [k |-> "empty", v |-> 0]
Missing == [k |-> "missing", v |-> 0]
Malformed == [k |-> "malformed", v |-> 0]

Quote(venue, amount, pathId) ==
    [venue |-> venue, toTokenAmount |-> amount, pathId |-> pathId]

\* q.toTokenAmount is truthy: every non-empty string, every number but 0
Truthy(amount) ==
    CASE amount.k = "num" -> TRUE
      [] amount.k = "number" -> amount.v /= 0
      [] amount.k = "malformed" -> TRUE
      [] OTHER -> FALSE
\* BigInt(q.toTokenAmount) throws
BigIntThrows(amount) == amount.k \in {"missing", "malformed"}
\* the filter's predicate: q && q.toTokenAmount && BigInt(q.toTokenAmount) > 0n
IsValidQuote(q) == Truthy(q.toTokenAmount) /\ q.toTokenAmount.v > 0

SelectValid(quotes) == SelectSeq(quotes, IsValidQuote)

RECURSIVE ReduceFrom(_, _, _, _)
ReduceFrom(quotes, i, best, takeTies) ==
    IF i > Len(quotes) THEN best
    ELSE LET current == quotes[i]
             better == \/ current.toTokenAmount.v > best.toTokenAmount.v
                       \/ takeTies /\ current.toTokenAmount.v = best.toTokenAmount.v
         IN  ReduceFrom(quotes, i + 1, IF better THEN current ELSE best, takeTies)

\* (mutant: the comparison is >=, so the last of several maxima wins)
ReduceBestMut(validQuotes) == ReduceFrom(validQuotes, 2, validQuotes[1], TRUE)

\* validQuotes.reduce((best, current) => current > best ? current : best)
ReduceBest(validQuotes) == ReduceFrom(validQuotes, 2, validQuotes[1], FALSE)

\* (mutant: the aggregator is asked only when no venue is preferred)
QueriedAdaptersMut(preferredDex) ==
    IF preferredDex = Null THEN <<"uniswap", "aerodrome", "odos">>
    ELSE IF preferredDex \in {Some("uniswap"), Some("aerodrome")}
    THEN <<preferredDex[1]>>
    ELSE <<"odos">>

\* the adapters getBestHopQuote calls, in call order
QueriedAdapters(preferredDex) ==
    (IF preferredDex = Null \/ preferredDex = Some("uniswap")
        THEN <<"uniswap">> ELSE <<>>)
    \o (IF preferredDex = Null \/ preferredDex = Some("aerodrome")
        THEN <<"aerodrome">> ELSE <<>>)
    \o <<"odos">>

\* answers maps each adapter to what it returns when called: Null or
\* Some(quote).  The outcome is [queried, threw, value]: the adapters called,
\* whether BigInt() threw inside the filter, and the returned quote or Null.
getBestHopQuote(answers, preferredDex) ==
    LET queried == QueriedAdapters(preferredDex)
        answered == SelectSeq(queried, LAMBDA a : answers[a] /= Null)
        quotes == [i \in 1 .. Len(answered) |-> answers[answered[i]][1]]
        threw == \E i \in 1 .. Len(quotes) :
                    /\ Truthy(quotes[i].toTokenAmount)
                    /\ BigIntThrows(quotes[i].toTokenAmount)
        validQuotes == SelectValid(quotes)
    IN  [queried |-> queried,
         threw |-> threw,
         value |-> IF threw \/ Len(validQuotes) = 0 THEN Null
                   ELSE Some(ReduceBest(validQuotes))]

(***************************************************************************)
(* opportunityScanner.js: checkConsensus                                   *)
(***************************************************************************)

\* quotes.sort((a, b) => BigInt(b.toTokenAmount) < BigInt(a.toTokenAmount) ? -1 : 1)
\* The comparator never returns 0.  Node's sort (binary insertion below 32
\* elements, the comparator called as (later, earlier)) puts an element
\* after every earlier element whose amount is not smaller, so the result is
\* the stable descending order.
RECURSIVE SortDescending(_)
SortDescending(quotes) ==
    IF Len(quotes) <= 1 THEN quotes
    ELSE LET front == SortDescending(SubSeq(quotes, 1, Len(quotes) - 1))
             pivot == quotes[Len(quotes)]
             before == SelectSeq(front,
                          LAMBDA q : ~(pivot.toTokenAmount.v > q.toTokenAmount.v))
             after == SelectSeq(front,
                          LAMBDA q : pivot.toTokenAmount.v > q.toTokenAmount.v)
         IN  before \o <<pivot>> \o after

\* percentageDifference <= tolerance, with
\* percentageDifference = Number(difference * 10000n / bestAmount) / 10000
\* and the tolerance in units of 10^-4
WithinTolerance(bestAmount, amount, toleranceBps) ==
    LET difference == IF bestAmount > amount THEN bestAmount - amount
                      ELSE amount - bestAmount
    IN  BigIntDiv(difference * 10000, bestAmount) <= toleranceBps

\* (mutant: the best quote is left out of the total)
ConsensusReachedMut(agreeing, total, thresholdNum, thresholdDen) ==
    agreeing * thresholdDen >= thresholdNum * (total - 1)

\* agreeingQuotes.length / quotes.length >= consensusThreshold, the
\* threshold being the fraction thresholdNum / thresholdDen
ConsensusReached(agreeing, total, thresholdNum, thresholdDen) ==
    agreeing * thresholdDen >= thresholdNum * total

\* The outcome is [threw, sorted, agreeing, value]: whether the call raised
\* (BigInt() of a missing or malformed amount, which every quote goes through
\* in the comparator or in the filter, or the division by a zero
\* bestAmount), the caller's array as the call leaves it, the agreeing
\* quotes, and the returned quote or Null.
checkConsensus(quotes, thresholdNum, thresholdDen, toleranceBps) ==
    IF Len(quotes) = 0
    THEN [threw |-> FALSE, sorted |-> quotes, agreeing |-> <<>>, value |-> Null]
    ELSE IF \E i \in 1 .. Len(quotes) : BigIntThrows(quotes[i].toTokenAmount)
    THEN [threw |-> TRUE, sorted |-> quotes, agreeing |-> <<>>, value |-> Null]
    ELSE LET sorted == SortDescending(quotes)
             bestQuote == sorted[1]
             bestAmount == bestQuote.toTokenAmount.v
         IN  IF bestAmount = 0
             THEN [threw |-> TRUE, sorted |-> sorted, agreeing |-> <<>>, value |-> Null]
             ELSE LET agreeingQuotes ==
                        SelectSeq(sorted, LAMBDA q :
                            WithinTolerance(bestAmount, q.toTokenAmount.v, toleranceBps))
                  IN  [threw |-> FALSE,
                       sorted |-> sorted,
                       agreeing |-> agreeingQuotes,
                       value |-> IF ConsensusReached(Len(agreeingQuotes), Len(quotes),
                                                     thresholdNum, thresholdDen)
                                 THEN Some(bestQuote) ELSE Null]

(***************************************************************************)
(* pathGenerator.js: PathGenerator                                         *)
(*                                                                         *)
(* The token database is a JavaScript object; the model keeps it as the    *)
(* sequence of its entries in key order, each [key, liquidity, pairs],     *)
(* pairs being the sequence of the entries [key, dex] of tokenData.pairs.  *)
(* Addresses are strings; "0xA" and "0xC" are "0xa" and "0xc" written in   *)
(* upper case.                                                             *)
(***************************************************************************)
ToLowerCase(a) == CASE a = "0xA" -> "0xa"
                    [] a = "0xC" -> "0xc"
                    [] OTHER -> a

\* this.tokenDatabase[key] is defined
HasKey(db, key) == \E i \in 1 .. Len(db) : db[i].key = key

\* this.tokenDatabase[key]; the last entry wins when a key is written twice
Lookup(db, key) ==
    db[CHOOSE i \in 1 .. Len(db) :
          /\ db[i].key = key
          /\ \A j \in (i + 1) .. Len(db) : db[j].key /= key]

\* Map.set on an insertion-ordered map kept as a sequence of [to, dex]
MapSet(neighbors, to, dex) ==
    IF \E i \in 1 .. Len(neighbors) : neighbors[i].to = to
    THEN [i \in 1 .. Len(neighbors) |->
             IF neighbors[i].to = to THEN [to |-> to, dex |-> dex] ELSE neighbors[i]]
    ELSE Append(neighbors, [to |-> to, dex |-> dex])

\* (mutant: a counterparty is accepted without looking it up)
InDatabaseMut(db, pairAddr, pairAddress) == TRUE

\* this.tokenDatabase[pairAddr] || this.tokenDatabase[pairAddress]
InDatabase(db, pairAddr, pairAddress) == HasKey(db, pairAddr) \/ HasKey(db, pairAddress)

\* the inner loop of buildGraph over Object.entries(tokenData.pairs)
RECURSIVE Neighbors(_, _, _, _)
Neighbors(db, pairs, i, neighbors) ==
    IF i > Len(pairs) THEN neighbors
    ELSE LET pairAddress == pairs[i].key
             pairAddr == ToLowerCase(pairAddress)
         IN  Neighbors(db, pairs, i + 1,
                 IF InDatabase(db, pairAddr, pairAddress)
                 THEN MapSet(neighbors, pairAddr, pairs[i].dex)
                 ELSE neighbors)

\* buildGraph: the map from a lower-case address to its neighbours, for the
\* tokens with at least one neighbour; a later entry with the same lower-case
\* address replaces an earlier one
buildGraph(db) ==
    LET nb(i) == Neighbors(db, db[i].pairs, 1, <<>>)
        kept == {i \in 1 .. Len(db) : Len(nb(i)) > 0}
        nodes == {ToLowerCase(db[i].key) : i \in kept}
        last(n) == CHOOSE i \in kept :
                      /\ ToLowerCase(db[i].key) = n
                      /\ \A j \in kept : ToLowerCase(db[j].key) = n => j <= i
    IN  [n \in nodes |-> nb(last(n))]

minHops == 2

\* (mutant: the earlier limit of 6 hops)
maxHopsMut == minHops + 4

maxHops == 4
maxPaths == 5000
keepPaths == 2000

\* this.graph.get(fromToken)?.get(toToken) || 'unknown'
DexOf(g, fromToken, toToken) ==
    IF fromToken \in DOMAIN g
       /\ \E i \in 1 .. Len(g[fromToken]) : g[fromToken][i].to = toToken
    THEN LET i == CHOOSE k \in 1 .. Len(g[fromToken]) : g[fromToken][k].to = toToken
         IN  g[fromToken][i].dex
    ELSE "unknown"

\* (mutant: every hop starts at the first node)
formatPathMut(g, pathNodes) ==
    [i \in 1 .. (Len(pathNodes) - 1) |->
        [from |-> pathNodes[1], to |-> pathNodes[i + 1],
         dex |-> DexOf(g, pathNodes[1], pathNodes[i + 1])]]

formatPath(g, pathNodes) ==
    [i \in 1 .. (Len(pathNodes) - 1) |->
        [from |-> pathNodes[i], to |-> pathNodes[i + 1],
         dex |-> DexOf(g, pathNodes[i], pathNodes[i + 1])]]

\* (mutant: the visited set is not consulted)
MayExtendMut(neighbor, visited, currentPath) == Len(currentPath) < maxHops

\* !visited.has(neighbor) && currentPath.length < maxHops
MayExtend(neighbor, visited, currentPath) ==
    neighbor \notin visited /\ Len(currentPath) < maxHops

\* (mutant: the neighbour stays in the visited set after the recursive call)
AfterRecursionMut(visited, neighbor) == visited

\* visited.delete(neighbor)
AfterRecursion(visited, neighbor) == visited \ {neighbor}

\* (mutant: the search stops only after the cap has been passed)
CapReachedMut(allPaths, cap) == Len(allPaths) > cap

\* allPaths.length >= maxPaths
CapReached(allPaths, cap) == Len(allPaths) >= cap

\* findCircularPaths and its loop over the neighbours; both return the
\* state they leave behind, [allPaths, visited]
RECURSIVE findCircularPaths(_, _, _, _, _, _)
RECURSIVE VisitNeighbors(_, _, _, _, _, _, _, _)

findCircularPaths(g, startNode, currentPath, visited, allPaths, cap) ==
    IF Len(currentPath) > maxHops \/ CapReached(allPaths, cap)
    THEN [allPaths |-> allPaths, visited |-> visited]
    ELSE LET lastNode == currentPath[Len(currentPath)]
         IN  IF lastNode \notin DOMAIN g
             THEN [allPaths |-> allPaths, visited |-> visited]
             ELSE VisitNeighbors(g, startNode, currentPath, g[lastNode], 1,
                                 visited, allPaths, cap)

VisitNeighbors(g, startNode, currentPath, neighbors, i, visited, allPaths, cap) ==
    IF i > Len(neighbors) \/ CapReached(allPaths, cap)
    THEN [allPaths |-> allPaths, visited |-> visited]
    ELSE LET neighbor == neighbors[i].to
         IN  IF neighbor = startNode /\ Len(currentPath) >= minHops
             THEN VisitNeighbors(g, startNode, currentPath, neighbors, i + 1, visited,
                      Append(allPaths, formatPath(g, Append(currentPath, neighbor))), cap)
             ELSE IF MayExtend(neighbor, visited, currentPath)
             THEN LET sub == findCircularPaths(g, startNode,
                                 Append(currentPath, neighbor),
                                 visited \cup {neighbor}, allPaths, cap)
                  IN  VisitNeighbors(g, startNode, currentPath, neighbors, i + 1,
                          AfterRecursion(sub.visited, neighbor), sub.allPaths, cap)
             ELSE VisitNeighbors(g, startNode, currentPath, neighbors, i + 1,
                                 visited, allPaths, cap)

\* the loop of generatePaths over this.flashLoanAssets; searched lists the
\* calls of findCircularPaths it made, each with its start node and the
\* number of paths collected before the call
RECURSIVE CollectPaths(_, _, _, _, _, _)
CollectPaths(g, hubs, i, allPaths, cap, searched) ==
    IF i > Len(hubs) THEN [allPaths |-> allPaths, searched |-> searched]
    ELSE LET startNode == hubs[i]
         IN  IF startNode \notin DOMAIN g
             THEN CollectPaths(g, hubs, i + 1, allPaths, cap, searched)
             ELSE IF CapReached(allPaths, cap)
             THEN [allPaths |-> allPaths, searched |-> searched]
             ELSE CollectPaths(g, hubs, i + 1,
                      findCircularPaths(g, startNode, <<startNode>>, {startNode},
                                        allPaths, cap).allPaths,
                      cap,
                      Append(searched, [startNode |-> startNode,
                                        before |-> Len(allPaths)]))

\* getPathLiquidity: the least liquidity among the path's tokens found in the
\* database, 0 when none is found
TokensOf(pathHops_) ==
    {pathHops_[i].from : i \in 1 .. Len(pathHops_)}
    \cup {pathHops_[i].to : i \in 1 .. Len(pathHops_)}

SetMin(S) == CHOOSE x \in S : \A y \in S : x <= y
SetMax(S) == CHOOSE x \in S : \A y \in S : x >= y

getPathLiquidity(db, pathHops_) ==
    LET found == {t \in TokensOf(pathHops_) :
                     HasKey(db, t) \/ HasKey(db, ToLowerCase(t))}
        liq(t) == IF HasKey(db, t) THEN Lookup(db, t).liquidity
                  ELSE Lookup(db, ToLowerCase(t)).liquidity
    IN  IF found = {} THEN 0 ELSE SetMin({liq(t) : t \in found})

\* paths.sort((a, b) => getPathLiquidity(b) - getPathLiquidity(a));
\* Array.prototype.sort is stable, so paths of equal liquidity keep their
\* generation order
RECURSIVE SortByLiquidity(_, _, _)
SortByLiquidity(db, paths, keys) ==
    IF keys = {} THEN <<>>
    ELSE LET top == SetMax(keys)
         IN  SelectSeq(paths, LAMBDA p : getPathLiquidity(db, p) = top)
             \o SortByLiquidity(db, paths, keys \ {top})

sortPathsByLiquidity(db, paths) ==
    SortByLiquidity(db, paths, {getPathLiquidity(db, paths[i]) : i \in 1 .. Len(paths)})

Reverse(seq) == [i \in 1 .. Len(seq) |-> seq[Len(seq) + 1 - i]]

Head2000(paths) == SubSeq(paths, 1, IF Len(paths) < keepPaths THEN Len(paths) ELSE keepPaths)

(***************************************************************************)
(* zScoreEngine.js: computeZScore and isHighConviction.                    *)
(*                                                                         *)
(* JavaScript numbers are IEEE 754 doubles; every operation returns the    *)
(* exact result rounded to the nearest double, ties to the even mantissa.  *)
(* A double is [neg, m, e], standing for +/- m * 2^e, where m is 0 (with   *)
(* e = 0 and neg = FALSE) or an integer of exactly 53 bits, held as its    *)
(* digits in base 2^14.  Overflow and underflow of the exponent, and the   *)
(* sign of zero, are left out.                                             *)
(***************************************************************************)
FZero == [neg |-> FALSE, m |-> <<>>, e |-> 0]

\* the double nearest to +/- (q + f) * 2^e, for an integer q and a fraction
\* 0 <= f < 1 that is not 0 exactly when inexact holds; q has at least 54 bits
\* when inexact holds
FRound(negative, q, e, inexact) ==
    IF q = <<>> THEN FZero
    ELSE LET r == DoubleRound(q, inexact)
             s == BigBitLength(r) - DoubleBits
         IN  [neg |-> negative,
              m |-> IF s >= 0 THEN BigShiftRight(r, s) ELSE BigShiftLeft(r, -s),
              e |-> e + s]

\* parseFloat of the decimal num / den, for num >= 0 and 0 < den <= 10000
DoubleOf(num, den) ==
    LET scaled == BigShiftLeft(BigOfNat(num), DoubleScale)
    IN  FRound(FALSE, BigDivSmall(scaled, den), -DoubleScale, BigModSmall(scaled, den) /= 0)

\* -a
FNeg(a) == IF a.m = <<>> THEN a ELSE [a EXCEPT !.neg = ~a.neg]

\* a + b
FAdd(a, b) ==
    IF a.m = <<>> THEN b
    ELSE IF b.m = <<>> THEN a
    ELSE LET emin == IF a.e < b.e THEN a.e ELSE b.e
             x == BigShiftLeft(a.m, a.e - emin)
             y == BigShiftLeft(b.m, b.e - emin)
         IN  IF a.neg = b.neg THEN FRound(a.neg, BigAdd(x, y), emin, FALSE)
             ELSE IF BigLess(x, y) THEN FRound(b.neg, BigSub(y, x), emin, FALSE)
             ELSE FRound(a.neg, BigSub(x, y), emin, FALSE)

\* a - b
FSub(a, b) == FAdd(a, FNeg(b))

\* a * b
FMul(a, b) == FRound(a.neg /= b.neg, BigMul(a.m, b.m), a.e + b.e, FALSE)

\* a / b, for b /= 0: the quotient of the mantissas to 56 or 57 bits
FDiv(a, b) ==
    IF a.m = <<>> THEN FZero
    ELSE LET first == ~BigLess(a.m, b.m)
             d == BigDivBits([rem |-> IF first THEN BigSub(a.m, b.m) ELSE a.m,
                              q |-> IF first THEN <<1>> ELSE <<>>,
                              bits |-> DoubleBits + 3], b.m)
         IN  FRound(a.neg /= b.neg, d.q, (a.e - b.e) - (DoubleBits + 3), d.rem /= <<>>)

\* a / k for a positive integer k below 2^13 (the length of the series)
FDivInt(a, k) ==
    LET scaled == BigShiftLeft(a.m, LimbBits)
    IN  FRound(a.neg, BigDivSmall(scaled, k), a.e - LimbBits, BigModSmall(scaled, k) /= 0)

\* Math.sqrt(a), for a >= 0: the root of the mantissa, shifted to 109 or 110
\* bits with an even exponent left, to 55 bits
FSqrt(a) ==
    IF a.m = <<>> THEN FZero
    ELSE LET k == IF (a.e - (DoubleBits + 3)) % 2 = 0 THEN DoubleBits + 3
                  ELSE DoubleBits + 4
             r == BigSqrt(BigShiftLeft(a.m, k))
         IN  FRound(FALSE, r.root, (a.e - k) \div 2, r.rem /= <<>>)

\* |a| > num / den, for num, den > 0
FAbsGreater(a, num, den) ==
    IF a.e >= 0 THEN BigLess(BigOfNat(num), BigShiftLeft(BigMulSmall(a.m, den), a.e))
    ELSE BigLess(BigShiftLeft(BigOfNat(num), -a.e), BigMulSmall(a.m, den))

\* historicalData.reduce((a, b) => a + b, 0)
RECURSIVE FSum(_)
FSum(values) ==
    IF values = <<>> THEN FZero
    ELSE FAdd(FSum(SubSeq(values, 1, Len(values) - 1)), values[Len(values)])

\* getHistoricalData line 37: return prices.length >= 2 ? prices : null
getHistoricalData(prices) == IF Len(prices) >= 2 THEN Some(prices) ELSE Null

\* line 62: historicalData.reduce((a, b) => a + b, 0) / historicalData.length
MeanOf(historicalData) == FDivInt(FSum(historicalData), Len(historicalData))

\* line 63-64; (val - mean) ** 2 is the correctly rounded square
VarianceOf(historicalData, mean) ==
    LET squaredDiffs == [i \in 1 .. Len(historicalData) |->
                            FMul(FSub(historicalData[i], mean),
                                 FSub(historicalData[i], mean))]
    IN  FDivInt(FSum(squaredDiffs), Len(historicalData))

\* line 67-68
ZWithStdDev(currentPrice, mean, stdDev) ==
    IF stdDev.m = <<>> THEN Some(FZero)
    ELSE CHOOSE z \in {Some(FDiv(difference, stdDev)) :
                          difference \in {FSub(currentPrice, mean)}} : TRUE

\* line 65-68
ZWithVariance(currentPrice, mean, variance) ==
    CHOOSE z \in {ZWithStdDev(currentPrice, mean, stdDev) :
                     stdDev \in {FSqrt(variance)}} : TRUE

\* line 63-68
ZWithMean(historicalData, mean) ==
    CHOOSE z \in {ZWithVariance(historicalData[1], mean, variance) :
                     variance \in {VarianceOf(historicalData, mean)}} : TRUE

\* computeZScore line 58-68, on the prices getHistoricalData collected: Null,
\* or Some(z).  Each const of the code is a value computed once: it is bound
\* as the member of a singleton set.
computeZScore(prices) ==
    LET historicalData == getHistoricalData(prices)
    IN  IF historicalData = Null \/ Len(prices) < 2 THEN Null
        ELSE CHOOSE z \in {ZWithMean(prices, mean) : mean \in {MeanOf(prices)}} : TRUE

\* isHighConviction line 77-81, with the default threshold 2.5 = 5 / 2
isHighConviction(zScore) ==
    IF zScore = Null THEN FALSE ELSE FAbsGreater(zScore[1], 5, 2)

(***************************************************************************)
(* opportunityScanner.js: buildSwapData, and profitCalculator.js:          *)
(* isProfitable                                                            *)
(***************************************************************************)

\* ethers.parseUnits('0.0005', 'ether'), in the evaluator's amount unit of
\* 10^11 wei
GasCostEstimate == 5000

\* Math.round((1 - (config.slippageBuffer || 0.003)) * 10000)
SwapSlippageFactor(slippageBuffer) ==
    SlippageFactor(IF slippageBuffer = Null \/ slippageBuffer[1] = 0
                   THEN 300 ELSE slippageBuffer[1])

\* amountOutMin = (BigInt(quote.toTokenAmount) * slippageFactor) / 10000n
AmountOutMin(q, slippageBuffer) ==
    BigIntMulDiv(q.toTokenAmount.v, SwapSlippageFactor(slippageBuffer), 10000)

RouterOf(venue) == CASE venue = "uniswap" -> "UNISWAP_V3_SWAP_ROUTER_02"
                     [] venue = "aerodrome" -> "AERODROME_ROUTER"
                     [] venue = "pancakeswap" -> "PANCAKESWAP_V3_SMART_ROUTER"
                     [] OTHER -> "ODOS_ROUTER_V2"

\* (mutant: the execution target is not required by the builders)
TargetConfiguredMut(cfg) == TRUE

\* config.contractAddress[config.network] is set
TargetConfigured(cfg) == cfg.contractAddr

\* getOdosAssemble(quote).  response is response.data.transaction of the
\* sor/assemble request: Null when the request fails or the answer has no
\* transaction, else [to, data], each Null (absent or empty) or Some(value).
getOdosAssemble(q, cfg, response) ==
    IF ~q.pathId THEN Null
    ELSE IF ~TargetConfigured(cfg) THEN Null
    ELSE IF response = Null THEN Null
    ELSE Some([to |-> IF response[1].to = Null THEN RouterOf("odos")
                      ELSE response[1].to[1],
               data |-> response[1].data])

\* buildSwapData.  encoded tells whether encodeFunctionData of a direct
\* venue's builder succeeds, response is what the Odos assemble request
\* answers.  The result is Null or Some([to, data]), data being Null or
\* Some(call data).
buildSwapData(q, hop, amountIn, cfg, encoded, response) ==
    IF q.venue = "odos"
    THEN getOdosAssemble(q, cfg, response)
    ELSE IF q.venue \in {"uniswap", "aerodrome", "pancakeswap"}
    THEN IF TargetConfigured(cfg) /\ encoded
         THEN Some([to |-> RouterOf(q.venue),
                    data |-> Some([venue |-> q.venue, from |-> hop.from, to |-> hop.to,
                                   amountIn |-> amountIn,
                                   amountOutMin |-> Some(AmountOutMin(q, cfg.slippageBuffer))])])
         ELSE Null
    ELSE Null

\* config.profitThreshold.toString() is a decimal ethers.parseUnits accepts.
\* A JavaScript number below 10^-6 in magnitude, 0 excepted, is written in
\* exponent notation ("1e-7"), which parseUnits rejects; in the amount unit
\* of 10^-7 ether these are the thresholds between -10 and 10.
ThresholdParses(profitThreshold) ==
    profitThreshold = 0 \/ Abs(profitThreshold) >= 10

\* line 46-52, the threshold isProfitable applies: Null when parseUnits
\* throws, else Some(config.profitThreshold in the amount unit, doubled for
\* a high-conviction pair)
AppliedThreshold(cfg, highConviction) ==
    IF ~ThresholdParses(cfg.profitThreshold) THEN Null
    ELSE Some(IF highConviction THEN cfg.profitThreshold * 2 ELSE cfg.profitThreshold)

\* isProfitable as exported, wrapped by withErrorHandling: Null (undefined)
\* when parseUnits throws, else Some(netProfit > threshold)
isProfitable(np, cfg, highConviction) ==
    LET threshold == AppliedThreshold(cfg, highConviction)
    IN  IF threshold = Null THEN Null ELSE Some(np > threshold[1])

(***************************************************************************)
(* Idle values: a specification that does not use a component leaves that  *)
(* component's variables at these values.                                  *)
(***************************************************************************)
calcIdle == calcIn = [amounts |-> <<0, 1>>, gasEstimate |-> 0, slippageBuffer |-> Some(0)] /\ calcOut = Null
quoteIdle == hqIn = Null /\ hqOut = Null
consIdle == ccIn = Null /\ ccOut = Null
genIdle == /\ tokenDatabase = <<>>
           /\ flashLoanAssets = <<>>
           /\ graph = <<>>
           /\ pathRuns = <<>>
           /\ genLog = <<>>
evalIdle == /\ pathHops = <<>>
            /\ initialAmount = 0
            /\ config = [contractAddr |-> FALSE, profitThreshold |-> 0, slippageBuffer |-> Some(0)]
            /\ pc = "idle"
            /\ hopIdx = 0
            /\ currentAmount = 0
            /\ quote = Null
            /\ executedHops = <<>>
            /\ tokens = <<>>
            /\ netProfit = 0
            /\ result = [status |-> "pending", value |-> Null]
            /\ trace = [quoted |-> <<>>, built |-> <<>>, gate |-> Null, simulated |-> Null]

EmptyCycleLog == [yielded |-> {}, rejected |-> {}, found |-> Null,
                  handedOff |-> <<>>, raised |-> FALSE, prevRaised |-> FALSE,
                  started |-> {}, finished |-> {}]

botIdle == /\ isRunning = FALSE
           /\ exited = FALSE
           /\ scanCount = 0
           /\ botPc = "idle"
           /\ scanPaths = <<>>
           /\ batchStart = 0
           /\ settled = <<>>
           /\ opportunities = <<>>
           /\ cycleLog = EmptyCycleLog

zIdle == zIn = <<>> /\ zOut = Null

arbIdle == chain = <<>> /\ lastCall = Null
txIdle == /\ nonce = Null
          /\ maxGasPriceGwei = Null
          /\ walletCount = 0
          /\ sendCalls = <<>>
          /\ sendStarted = 0
          /\ resets = 0
          /\ nonceLog = <<>>
          /\ sendLog = <<>>

(***************************************************************************)
(* SpecProfit: calculateNetProfit applied to bounded arguments.            *)
(***************************************************************************)
MaxCalcAmount == 6
MaxGas == 2

\* <<grossOutput, borrowedAmount>>: a small range, values around the first
\* non-zero premium (1112 * 9 >= 10000) and the 1_000_000 example
CalcAmountPairs ==
    ((-2 .. MaxCalcAmount) \X (1 .. MaxCalcAmount))
    \cup ({9999, 10000, 10001, 12345} \X {1111, 1112, 10000, 12345})
    \cup ({999999, 1000000, 1000001} \X {1000000})
    \cup {<<1112, 1112>>, <<1111, 1111>>}

\* a missing field; 0, 10 bps, 30 bps, 30.4 bps; and two values whose factor
\* lies halfway between two integers: 0.00305 (9969.5, which the doubles
\* carry to 9970) and 0.18185 (8181.5, which they carry to 8181); and 1.5,
\* whose factor -5000 is negative
SlippageBufferSet == {Null} \cup {Some(n) : n \in {0, 100, 300, 304, 305, 18185, 150000}}

CalcInit ==
    /\ calcIn \in [amounts : CalcAmountPairs, gasEstimate : 0 .. MaxGas,
                   slippageBuffer : SlippageBufferSet]
    /\ calcOut = Null
    /\ quoteIdle /\ consIdle /\ genIdle /\ evalIdle /\ botIdle /\ zIdle /\ arbIdle /\ txIdle

CalcApply ==
    /\ calcOut = Null
    /\ calcOut' = Some(calculateNetProfit(calcIn.amounts[1], calcIn.amounts[2],
                                          calcIn.gasEstimate, calcIn.slippageBuffer))
    /\ UNCHANGED <<calcIn, quoteVars, consVars, genVars, evalVars, botVars, zVars, arbVars, txVars>>

CalcNext == CalcApply

SpecProfit == CalcInit /\ [][CalcNext]_vars

\* the arguments of the call whose result calcOut holds
CalcGross == calcIn.amounts[1]
CalcBorrowed == calcIn.amounts[2]
CalcDone == calcOut /= Null
CalcResult == calcOut[1]
\* slippage given in whole basis points, at most the whole output
CalcWholeBps ==
    /\ calcIn.slippageBuffer /= Null
    /\ calcIn.slippageBuffer[1] % 10 = 0
    /\ calcIn.slippageBuffer[1] <= SlippageUnit
CalcSlippageBps == calcIn.slippageBuffer[1] \div 10

\* slippageAdj of the spec's formula: grossOutput - grossOutput * slippageBps / 10000
SpecSlippageAdj == CalcGross - BigIntDiv(CalcGross * CalcSlippageBps, 10000)

\* C3 as stated: netProfit equals the spec's formula for every input
\* (premium = borrowed*9/10000, repayAmount = borrowed + premium,
\* netProfit = (gross - gross*slippageBps/10000) - repayAmount - gasEstimate).
C3_SpecFormula ==
    (CalcDone /\ CalcWholeBps) =>
        /\ CalcResult.premium = BigIntDiv(CalcBorrowed * 9, 10000)
        /\ CalcResult.repayAmount = CalcBorrowed + CalcResult.premium
        /\ CalcResult.netProfit =
              SpecSlippageAdj - CalcResult.repayAmount - calcIn.gasEstimate

\* C3 amended: premium and repayAmount are as stated; netProfit is
\* grossOutput*(10000 - slippageBps)/10000 (truncated) - repayAmount - gasEstimate,
\* which is the spec's formula when grossOutput*slippageBps is a multiple of
\* 10000 and differs from it by one otherwise (one less for grossOutput > 0,
\* one more for grossOutput < 0).
C3_CodeFormula ==
    (CalcDone /\ CalcWholeBps) =>
        LET exact == (CalcGross * CalcSlippageBps) % 10000 = 0
            adj == IF exact THEN SpecSlippageAdj
                   ELSE IF CalcGross > 0 THEN SpecSlippageAdj - 1
                   ELSE SpecSlippageAdj + 1
        IN  /\ ~CalcResult.threw
            /\ CalcResult.premium = BigIntDiv(CalcBorrowed * 9, 10000)
            /\ CalcResult.repayAmount = CalcBorrowed + CalcResult.premium
            /\ CalcResult.netProfit = adj - CalcResult.repayAmount - calcIn.gasEstimate

\* C3 witness: a result for a gross output whose slippage share is not a
\* whole number, with a non-zero premium
C3_Witness ==
    /\ CalcDone /\ CalcWholeBps
    /\ (CalcGross * CalcSlippageBps) % 10000 /= 0
    /\ CalcResult.premium > 0

\* C4: a break-even trade (grossOutput = borrowedAmount) at 30 bps slippage
\* nets negative, and 1_000_000 / 1_000_000 / 0 yields premium 900,
\* repayAmount 1_000_900 and netProfit -3_900.
C4_BreakEvenNegative ==
    (CalcDone /\ calcIn.slippageBuffer = Some(300) /\ CalcGross = CalcBorrowed) =>
        /\ CalcResult.netProfit < 0
        /\ (CalcBorrowed = 1000000 /\ calcIn.gasEstimate = 0) =>
              /\ CalcResult.premium = 900
              /\ CalcResult.repayAmount = 1000900
              /\ CalcResult.netProfit = -3900

\* C4 witness: the 1_000_000 example has been computed
C4_Witness ==
    /\ CalcDone /\ calcIn.slippageBuffer = Some(300)
    /\ CalcGross = 1000000 /\ CalcBorrowed = 1000000 /\ calcIn.gasEstimate = 0
    /\ CalcResult.netProfit = -3900

(***************************************************************************)
(* SpecQuote: getBestHopQuote applied to bounded adapter answers.          *)
(***************************************************************************)
MaxQuoteAmount == 3

\* the direct adapters return null or a quote with a positive amount
\* (dexService.js: "if (bestQuote > 0n)"); 500 and 700 are the spec's example
DirectAmounts == (1 .. MaxQuoteAmount) \cup {500, 700}
\* Odos returns outAmounts[0] as the API sent it
OdosAmounts == {Num(n) : n \in (-1 .. MaxQuoteAmount) \cup {500, 700}}
               \cup {JsNumber(0), JsNumber(2), Empty, Missing, Malformed}

UniswapAnswers == {Null} \cup {Some(Quote("uniswap", Num(n), FALSE)) : n \in DirectAmounts}
AerodromeAnswers == {Null} \cup {Some(Quote("aerodrome", Num(n), FALSE)) : n \in DirectAmounts}
OdosAnswers == {Null} \cup {Some(Quote("odos", a, TRUE)) : a \in OdosAmounts}

AdapterAnswers ==
    {[uniswap |-> u, aerodrome |-> a, odos |-> o] :
        u \in UniswapAnswers, a \in AerodromeAnswers, o \in OdosAnswers}

\* hop.dex: absent, a venue with a direct adapter, or any other label
PreferredDexSet == {Null, Some("uniswap"), Some("aerodrome"), Some("pancakeswap")}

QuoteInit ==
    /\ hqIn \in {Some([answers |-> a, preferredDex |-> d]) :
                    a \in AdapterAnswers, d \in PreferredDexSet}
    /\ hqOut = Null
    /\ calcIdle /\ consIdle /\ genIdle /\ evalIdle /\ botIdle /\ zIdle /\ arbIdle /\ txIdle

QuoteApply ==
    /\ hqOut = Null
    /\ hqOut' = Some(getBestHopQuote(hqIn[1].answers, hqIn[1].preferredDex))
    /\ UNCHANGED <<hqIn, calcVars, consVars, genVars, evalVars, botVars, zVars, arbVars, txVars>>

QuoteNext == QuoteApply

SpecQuote == QuoteInit /\ [][QuoteNext]_vars

HqDone == hqOut /= Null
HqResult == hqOut[1]
\* the quotes the queried adapters returned, in source order
HqReturned ==
    LET q == HqResult.queried
        answered == SelectSeq(q, LAMBDA a : hqIn[1].answers[a] /= Null)
    IN  [i \in 1 .. Len(answered) |-> hqIn[1].answers[answered[i]][1]]
\* positions of the quotes with a present, positive output amount
HqValidIdx ==
    {i \in 1 .. Len(HqReturned) :
        /\ HqReturned[i].toTokenAmount.k \in {"num", "number"}
        /\ HqReturned[i].toTokenAmount.v > 0}

\* C5: when the call returns, the result is null iff no queried adapter gave
\* a quote with a present, positive amount; otherwise it is the first quote in
\* source order among those with the greatest amount (500 and 700 give 700).
C5_BestQuote ==
    (HqDone /\ ~HqResult.threw) =>
        /\ (HqResult.value = Null) <=> (HqValidIdx = {})
        /\ HqResult.value /= Null =>
              \E i \in HqValidIdx :
                 /\ HqResult.value[1] = HqReturned[i]
                 /\ \A j \in HqValidIdx :
                       /\ HqReturned[j].toTokenAmount.v <= HqReturned[i].toTokenAmount.v
                       /\ j < i => HqReturned[j].toTokenAmount.v < HqReturned[i].toTokenAmount.v
        /\ ( /\ hqIn[1].preferredDex = Null
             /\ hqIn[1].answers.uniswap = Some(Quote("uniswap", Num(500), FALSE))
             /\ hqIn[1].answers.aerodrome = Some(Quote("aerodrome", Num(700), FALSE))
             /\ hqIn[1].answers.odos = Null )
           => HqResult.value = Some(Quote("aerodrome", Num(700), FALSE))

\* C5 witness: three valid quotes, the first two sharing the maximum, and the
\* first one returned
C5_Witness ==
    /\ HqDone /\ ~HqResult.threw
    /\ Cardinality(HqValidIdx) = 3
    /\ HqReturned[1].toTokenAmount.v = HqReturned[2].toTokenAmount.v
    /\ HqReturned[3].toTokenAmount.v < HqReturned[1].toTokenAmount.v
    /\ HqResult.value = Some(HqReturned[1])

HqPreferred == hqIn[1].preferredDex
HqRecognized == HqPreferred \in {Some("uniswap"), Some("aerodrome")}

\* C20 as stated: with a recognized preferred venue only that venue's
\* adapter is queried; with none, the direct adapters and the aggregator.
C20_OnlyPreferred ==
    HqDone =>
        /\ HqRecognized => HqResult.queried = <<HqPreferred[1]>>
        /\ HqPreferred = Null => HqResult.queried = <<"uniswap", "aerodrome", "odos">>

\* C20 amended: with a recognized preferred venue that venue's adapter and
\* the Odos aggregator are queried, in this order; with none, both direct
\* adapters and the aggregator; with any other venue, the aggregator alone.
C20_PreferredAndAggregator ==
    HqDone =>
        /\ HqRecognized => HqResult.queried = <<HqPreferred[1], "odos">>
        /\ HqPreferred = Null => HqResult.queried = <<"uniswap", "aerodrome", "odos">>
        /\ (HqPreferred /= Null /\ ~HqRecognized) => HqResult.queried = <<"odos">>

\* C20 witness: uniswap is preferred and answers, and the quote returned is
\* the aggregator's
C20_Witness ==
    /\ HqDone
    /\ HqPreferred = Some("uniswap")
    /\ hqIn[1].answers.uniswap /= Null
    /\ HqResult.value /= Null
    /\ HqResult.value[1].venue = "odos"

(***************************************************************************)
(* SpecConsensus: checkConsensus applied to bounded lists of quotes.       *)
(***************************************************************************)
MaxConsensusQuotes == 4

\* the adapters findBestQuotes asks, in its order
ConsensusVenues == <<"1inch", "odos", "cowswap", "uniswap", "aerodrome", "pancakeswap">>

\* decimal strings, and what else an adapter may pass on: "", a missing
\* field and a string BigInt() rejects
ConsensusAmounts == {Num(n) : n \in {0, 50, 80, 98, 99, 100, 197, 199}}
                    \cup {Empty, Missing, Malformed}

\* the list of quotes with the given amounts, the i-th from the i-th adapter
ConsensusQuoteLists(amounts) ==
    [i \in 1 .. Len(amounts) |-> Quote(ConsensusVenues[i], amounts[i], TRUE)]

\* the default arguments: consensusThreshold = 2 / 3, tolerance = 0.01
DefaultThresholdNum == 2
DefaultThresholdDen == 3
DefaultToleranceBps == 100

ConsInit ==
    /\ \E n \in 0 .. MaxConsensusQuotes :
          \E amounts \in [1 .. n -> ConsensusAmounts] :
             ccIn = ConsensusQuoteLists(amounts)
    /\ ccOut = Null
    /\ calcIdle /\ quoteIdle /\ genIdle /\ evalIdle /\ botIdle /\ zIdle /\ arbIdle /\ txIdle

\* one call checkConsensus(quotes) on the caller's array ccIn: quotes.sort
\* reorders that array in place (it is left as it was when the comparator
\* throws, the sorted copy being written back only at the end); ccOut keeps
\* the array as it was given and the call's outcome
ConsApply ==
    /\ ccOut = Null
    /\ LET outcome == checkConsensus(ccIn, DefaultThresholdNum, DefaultThresholdDen,
                                     DefaultToleranceBps)
       IN  /\ ccOut' = Some([given |-> ccIn, outcome |-> outcome])
           /\ ccIn' = outcome.sorted
    /\ UNCHANGED <<calcVars, quoteVars, genVars, evalVars, botVars, zVars, arbVars, txVars>>

ConsNext == ConsApply

SpecConsensus == ConsInit /\ [][ConsNext]_vars

CcDone == ccOut /= Null
CcResult == ccOut[1].outcome
\* the array as the caller handed it over
CcGiven == IF CcDone THEN ccOut[1].given ELSE ccIn
\* every amount is a decimal string
CcAllNum == \A i \in 1 .. Len(CcGiven) : CcGiven[i].toTokenAmount.k = "num"
CcAmounts == [i \in 1 .. Len(CcGiven) |-> CcGiven[i].toTokenAmount.v]
CcAgreeingAmounts == {CcResult.agreeing[i].toTokenAmount.v : i \in 1 .. Len(CcResult.agreeing)}

\* C10 as stated: for outputs 100, 99, 98, 50 the three quotes 100, 99 and 98
\* agree and the quote with output 100 is returned.
C10_ExampleAsStated ==
    (CcDone /\ CcAllNum /\ CcAmounts = <<100, 99, 98, 50>>) =>
        /\ ~CcResult.threw
        /\ Len(CcResult.agreeing) = 3
        /\ CcAgreeingAmounts = {100, 99, 98}
        /\ CcResult.value = Some(CcGiven[1])

\* C10 amended: for outputs 100, 99, 98, 50 only the two quotes 100 and 99
\* are within 1% of the best (98 deviates by 2%), 2/4 is below 2/3, and the
\* call returns null.
C10_ExampleInCode ==
    (CcDone /\ CcAllNum /\ CcAmounts = <<100, 99, 98, 50>>) =>
        /\ ~CcResult.threw
        /\ Len(CcResult.agreeing) = 2
        /\ CcAgreeingAmounts = {100, 99}
        /\ CcResult.value = Null

\* C10 witness: checkConsensus has returned for the outputs 100, 99, 98, 50
C10_Witness ==
    /\ CcDone /\ CcAllNum /\ CcAmounts = <<100, 99, 98, 50>>
    /\ ~CcResult.threw
    /\ ccIn = CcGiven

CcBestAmount == SetMax({CcAmounts[i] : i \in 1 .. Len(CcGiven)})
CcReturnedBest ==
    /\ CcResult.value /= Null
    /\ CcResult.value[1].toTokenAmount.v = CcBestAmount

\* the quotes q with |best - q| / best <= tolerance, the deviation taken
\* exactly
CcExactAgreeing ==
    {i \in 1 .. Len(CcGiven) :
        Abs(CcBestAmount - CcAmounts[i]) * 10000 <= DefaultToleranceBps * CcBestAmount}

\* C11: for a non-empty list of decimal amounts whose best is positive, checkConsensus
\* returns the quote with the greatest amount exactly when the quotes whose
\* exact deviation |best - q| / best is at most the tolerance make up at
\* least the threshold fraction of the list, and null otherwise.
C11_ExactDeviation ==
    (CcDone /\ Len(CcGiven) > 0 /\ CcAllNum /\ CcBestAmount > 0) =>
        /\ ~CcResult.threw
        /\ IF Cardinality(CcExactAgreeing) * DefaultThresholdDen
                  >= DefaultThresholdNum * Len(CcGiven)
           THEN CcReturnedBest
           ELSE CcResult.value = Null

\* C12: checkConsensus never raises: it returns null for the empty list and,
\* for a non-empty list (a zero best amount included), null or one of the
\* quotes it was given.
C12_NeverRaises ==
    CcDone =>
        /\ ~CcResult.threw
        /\ Len(CcGiven) = 0 => CcResult.value = Null
        /\ CcResult.value /= Null =>
              \E i \in 1 .. Len(CcGiven) : CcGiven[i] = CcResult.value[1]

(***************************************************************************)
(* SpecPaths: a PathGenerator built from a bounded token database and hub  *)
(* list, and generatePaths called on it twice.                             *)
(***************************************************************************)
NumEdges == 11
MaxRuns == 2

\* directed pairs a database may hold, in the order they are written
CandidateEdges ==
    << <<"0xa", "0xb">>, <<"0xb", "0xa">>, <<"0xb", "0xc">>, <<"0xc", "0xa">>,
       <<"0xc", "0xd">>, <<"0xd", "0xa">>, <<"0xd", "0xe">>, <<"0xe", "0xa">>,
       <<"0xc", "0xb">>, <<"0xa", "0xc">>, <<"0xb", "0xf">>, <<"0xd", "0xb">>,
       <<"0xb", "0xd">>, <<"0xe", "0xb">>, <<"0xa", "0xa">> >>

EdgeDex(i) == IF i % 2 = 1 THEN "uniswap" ELSE "aerodrome"

TokenKeys == <<"0xa", "0xb", "0xc", "0xd", "0xe">>
TokenLiquidity == [t \in {"0xa", "0xb", "0xc", "0xd", "0xe"} |->
                     CASE t = "0xa" -> 50 [] t = "0xb" -> 30 [] t = "0xc" -> 25
                       [] t = "0xd" -> 10 [] OTHER -> 20]

\* how the keys are written: all lower case; "0xc" keyed "0xC" and referred
\* to as "0xC" except by "0xa"; or lower case with the pairs in reverse order,
\* "0xb" naming "0xc" a second time as "0xC" with another venue
KeyStyles == {"lower", "mixed", "reversed"}

WrittenKey(style, t) == IF style = "mixed" /\ t = "0xc" THEN "0xC" ELSE t
WrittenRef(style, from, t) ==
    IF style = "mixed" /\ t = "0xc" /\ from /= "0xa" THEN "0xC" ELSE t

MinNat(a, b) == IF a <= b THEN a ELSE b

Database(edges, style) ==
    [k \in 1 .. Len(TokenKeys) |->
        LET t == TokenKeys[k]
            idx == SelectSeq([i \in 1 .. MinNat(NumEdges, Len(CandidateEdges)) |-> i],
                             LAMBDA i : i \in edges /\ CandidateEdges[i][1] = t)
            ordered == IF style = "reversed" THEN Reverse(idx) ELSE idx
            again == IF style = "reversed" /\ t = "0xb"
                        /\ \E j \in 1 .. Len(ordered) :
                               CandidateEdges[ordered[j]][2] = "0xc"
                     THEN <<[key |-> "0xC", dex |-> "pancakeswap"]>>
                     ELSE <<>>
        IN  [key |-> WrittenKey(style, t),
             liquidity |-> TokenLiquidity[t],
             pairs |-> [j \in 1 .. Len(ordered) |->
                          [key |-> WrittenRef(style, t, CandidateEdges[ordered[j]][2]),
                           dex |-> EdgeDex(ordered[j])]] \o again]]

\* config.hubAssets: a hub in upper case, a hub absent from the database
HubLists == { <<"0xa">>, <<"0xA", "0xb">>, <<"0xb", "0xf", "0xa">> }

\* a dense market: DenseTokens tokens, every two of them paired, which holds
\* more than maxPaths cycles from its DenseHubs hubs
DenseTokens == 12
DenseHubs == 6
DenseKey(k) == CASE k = 1 -> "0x01" [] k = 2 -> "0x02" [] k = 3 -> "0x03"
                 [] k = 4 -> "0x04" [] k = 5 -> "0x05" [] k = 6 -> "0x06"
                 [] k = 7 -> "0x07" [] k = 8 -> "0x08" [] k = 9 -> "0x09"
                 [] k = 10 -> "0x10" [] k = 11 -> "0x11" [] k = 12 -> "0x12"
                 [] k = 13 -> "0x13" [] OTHER -> "0x14"

DenseDatabase ==
    [k \in 1 .. DenseTokens |->
        LET others == SelectSeq([i \in 1 .. DenseTokens |-> i], LAMBDA i : i /= k)
        IN  [key |-> DenseKey(k),
             liquidity |-> 10 * ((k % 4) + 1),
             pairs |-> [j \in 1 .. Len(others) |->
                          [key |-> DenseKey(others[j]), dex |-> EdgeDex(k + others[j])]]]]

DenseHubList == [i \in 1 .. DenseHubs |-> DenseKey(i)]

\* the constructor: lower-case the hubs, build the graph
PathsInit ==
    /\ \/ /\ \E edges \in SUBSET (1 .. MinNat(NumEdges, Len(CandidateEdges))), style \in KeyStyles :
                tokenDatabase = Database(edges, style)
          /\ \E hubs \in HubLists :
                flashLoanAssets = [i \in 1 .. Len(hubs) |-> ToLowerCase(hubs[i])]
       \/ /\ tokenDatabase = DenseDatabase
          /\ flashLoanAssets = [i \in 1 .. DenseHubs |-> ToLowerCase(DenseHubList[i])]
    /\ graph = buildGraph(tokenDatabase)
    /\ pathRuns = <<>>
    /\ genLog = <<>>
    /\ calcIdle /\ quoteIdle /\ consIdle /\ evalIdle /\ botIdle /\ zIdle /\ arbIdle /\ txIdle

\* generatePaths()
GeneratePaths ==
    /\ Len(pathRuns) < MaxRuns
    /\ LET collected == CollectPaths(graph, flashLoanAssets, 1, <<>>, maxPaths, <<>>)
       IN  /\ pathRuns' = Append(pathRuns,
                                 Head2000(sortPathsByLiquidity(tokenDatabase,
                                                               collected.allPaths)))
           /\ genLog' = Append(genLog, collected)
    /\ UNCHANGED <<tokenDatabase, flashLoanAssets, graph,
                   calcVars, quoteVars, consVars, evalVars, botVars, zVars, arbVars, txVars>>

PathsNext == GeneratePaths

SpecPaths == PathsInit /\ [][PathsNext]_vars

\* every path any run returned
EmittedPaths == UNION {{pathRuns[r][i] : i \in 1 .. Len(pathRuns[r])} : r \in 1 .. Len(pathRuns)}

\* C6: every emitted path has 2, 3 or 4 hops.
C6_HopCount == \A p \in EmittedPaths : Len(p) \in 2 .. 4

\* C6 witness: paths of 2, 3 and 4 hops are emitted from a graph that also
\* holds the 5-hop cycle a -> b -> c -> d -> e -> a
C6_Witness ==
    /\ \A n \in 2 .. 4 : \E p \in EmittedPaths : Len(p) = n
    /\ "0xe" \in DOMAIN graph
    /\ \A k \in 1 .. 4 :
          \E i \in 1 .. Len(graph[TokenKeys[k]]) : graph[TokenKeys[k]][i].to = TokenKeys[k + 1]
    /\ \E i \in 1 .. Len(graph["0xe"]) : graph["0xe"][i].to = "0xa"

\* C7: every emitted path is a closed simple cycle: it starts and ends at a
\* hub, consecutive hops are connected, and the intermediate tokens are
\* pairwise distinct and differ from the hub.
C7_SimpleCycle ==
    \A p \in EmittedPaths :
        /\ p[1].from = p[Len(p)].to
        /\ \E h \in 1 .. Len(flashLoanAssets) : flashLoanAssets[h] = p[1].from
        /\ \A i \in 1 .. (Len(p) - 1) : p[i].to = p[i + 1].from
        /\ \A i \in 1 .. (Len(p) - 1) : p[i].to /= p[1].from
        /\ \A i, j \in 1 .. (Len(p) - 1) : i /= j => p[i].to /= p[j].to

\* C7 witness: a 4-hop cycle is emitted from a graph in which an intermediate
\* token could be revisited (b -> c and c -> b are both edges)
C7_Witness ==
    /\ \E p \in EmittedPaths : Len(p) = 4
    /\ "0xb" \in DOMAIN graph /\ "0xc" \in DOMAIN graph
    /\ \E i \in 1 .. Len(graph["0xb"]) : graph["0xb"][i].to = "0xc"
    /\ \E i \in 1 .. Len(graph["0xc"]) : graph["0xc"][i].to = "0xb"

\* C25: a run never accumulates more than 5000 paths; findCircularPaths is
\* called for a hub only while fewer than 5000 paths are collected, so the
\* hubs left when the cap is reached are not searched; the returned list has
\* at most 2000 paths.
C25_CapsHold ==
    \A r \in DOMAIN genLog :
        /\ Len(genLog[r].allPaths) <= 5000
        /\ \A k \in DOMAIN genLog[r].searched : genLog[r].searched[k].before < 5000
        /\ Len(pathRuns[r]) <= 2000

\* the database holds the token, addresses compared in lower case
Listed(t) == \E i \in 1 .. Len(tokenDatabase) : ToLowerCase(tokenDatabase[i].key) = t

\* C27: every edge of the graph connects two tokens that are both in the
\* database, and a token has at most one edge, with one venue, to each other
\* token.
C27_EdgesWithinDatabase ==
    \A n \in DOMAIN graph :
        /\ Listed(n)
        /\ \A k \in 1 .. Len(graph[n]) : Listed(graph[n][k].to)
        /\ \A k1, k2 \in 1 .. Len(graph[n]) :
              graph[n][k1].to = graph[n][k2].to => k1 = k2

\* C27 witness: a token names a counterparty the database does not hold and
\* names another one twice, in lower and in upper case with two venues; the
\* graph holds no edge to the first and one edge to the second
C27_Witness ==
    /\ \E i \in 1 .. Len(tokenDatabase) :
          /\ tokenDatabase[i].key = "0xb"
          /\ \E j \in 1 .. Len(tokenDatabase[i].pairs) :
                tokenDatabase[i].pairs[j].key = "0xf"
          /\ \E j \in 1 .. Len(tokenDatabase[i].pairs) :
                tokenDatabase[i].pairs[j] = [key |-> "0xc", dex |-> "uniswap"]
          /\ \E j \in 1 .. Len(tokenDatabase[i].pairs) :
                tokenDatabase[i].pairs[j] = [key |-> "0xC", dex |-> "pancakeswap"]
    /\ "0xb" \in DOMAIN graph
    /\ \E k \in 1 .. Len(graph["0xb"]) :
          graph["0xb"][k] = [to |-> "0xc", dex |-> "pancakeswap"]
    /\ \A k \in 1 .. Len(graph["0xb"]) : graph["0xb"][k].to /= "0xf"

\* the graph has the edge x -> y
HasEdge(x, y) ==
    x \in DOMAIN graph /\ \E k \in 1 .. Len(graph[x]) : graph[x][k].to = y

GraphNodes ==
    DOMAIN graph \cup UNION {{graph[n][k].to : k \in 1 .. Len(graph[n])} : n \in DOMAIN graph}

\* the node sequences h, n1 .. nk, h (k = 1 .. 3) that are simple directed
\* cycles of the graph through the hub h
SimpleCycles(h) ==
    {<<h>> \o mid \o <<h>> :
        mid \in {m \in UNION {[1 .. k -> GraphNodes \ {h}] : k \in 1 .. 3} :
                    /\ \A i, j \in DOMAIN m : i /= j => m[i] /= m[j]
                    /\ HasEdge(h, m[1])
                    /\ \A i \in 1 .. (Len(m) - 1) : HasEdge(m[i], m[i + 1])
                    /\ HasEdge(m[Len(m)], h)}}

\* C29: a run that stayed below both caps returns, for every hub present in
\* the graph, every simple directed cycle of 2 to 4 hops through that hub,
\* each once, and nothing else.
C29_AllCyclesOnce ==
    \A r \in DOMAIN pathRuns :
        (Len(genLog[r].allPaths) < 5000 /\ Len(genLog[r].allPaths) < 2000) =>
            LET returned == {pathRuns[r][i] : i \in 1 .. Len(pathRuns[r])}
                hubs == {flashLoanAssets[i] : i \in 1 .. Len(flashLoanAssets)}
                        \cap DOMAIN graph
                expected == UNION {{formatPath(graph, c) : c \in SimpleCycles(h)} :
                                      h \in hubs}
            IN  /\ returned = expected
                /\ Len(pathRuns[r]) = Cardinality(expected)

\* C29 witness: a run returned the cycles of two hubs, among them a -> b -> a
\* found first and a -> c -> a found after the search had gone through b and c
C29_Witness ==
    /\ Len(pathRuns) >= 1
    /\ Len(genLog[1].searched) = 2
    /\ HasEdge("0xa", "0xb") /\ HasEdge("0xb", "0xc") /\ HasEdge("0xc", "0xa")
    /\ HasEdge("0xa", "0xc") /\ HasEdge("0xc", "0xb") /\ HasEdge("0xb", "0xa")
    /\ \E i \in 1 .. Len(pathRuns[1]) :
          pathRuns[1][i] = formatPath(graph, <<"0xa", "0xc", "0xb", "0xa">>)
    /\ \E i \in 1 .. Len(pathRuns[1]) :
          pathRuns[1][i] = formatPath(graph, <<"0xa", "0xc", "0xa">>)

\* the bottleneck liquidity of a path: the least liquidity among the database
\* entries of the tokens it touches, addresses compared in lower case
BottleneckLiquidity(p) ==
    LET touched == {i \in 1 .. Len(tokenDatabase) :
                       ToLowerCase(tokenDatabase[i].key) \in TokensOf(p)}
    IN  IF touched = {} THEN 0
        ELSE SetMin({tokenDatabase[i].liquidity : i \in touched})

\* C26: a returned list is ordered by non-increasing bottleneck liquidity,
\* and every path it retains has a bottleneck liquidity at least as large as
\* that of every generated path the cut to 2000 dropped.
C26_SortedByBottleneck ==
    \A r \in DOMAIN pathRuns :
        LET kept == pathRuns[r]
            keptSet == {kept[i] : i \in 1 .. Len(kept)}
            all == genLog[r].allPaths
            dropped == {all[k] : k \in 1 .. Len(all)} \ keptSet
        IN  /\ \A i \in 1 .. (Len(kept) - 1) :
                  BottleneckLiquidity(kept[i]) >= BottleneckLiquidity(kept[i + 1])
            /\ \A lo \in {BottleneckLiquidity(p) : p \in keptSet} :
                  \A hi \in {BottleneckLiquidity(p) : p \in dropped} : lo >= hi

\* C25 witness: the cap was reached while a hub present in the graph was
\* still to be searched, and the list was cut to 2000
C25_Witness ==
    /\ Len(genLog) >= 1
    /\ Len(genLog[1].allPaths) = 5000
    /\ Len(pathRuns[1]) = 2000
    /\ \A h \in DOMAIN flashLoanAssets : flashLoanAssets[h] \in DOMAIN graph
    /\ Len(genLog[1].searched) < Len(flashLoanAssets)

(***************************************************************************)
(* Spec: one call of evaluatePath(pathHops, initialAmount, tokenDatabase). *)
(* Each action is the code between two awaits; the adapters, DexScreener   *)
(* and the simulated call answer nondeterministically.                     *)
(* Amounts are in units of 10^11 wei (1 ether = 10^7), and every amount an *)
(* adapter answers here is a multiple of 10^4 units: each division by      *)
(* 10000 of the code is then exact, and the value in units is the code's   *)
(* value in wei divided by 10^11.                                          *)
(***************************************************************************)

\* the cycle a -> b -> c -> d -> a cut to n hops, with the venue hints the
\* path generator may attach (a direct venue, or any other label)
EvalTokens == <<"0xa", "0xb", "0xc", "0xd">>
EvalDex == <<"uniswap", "aerodrome", "unknown", "uniswap">>
EvalPath(n) ==
    [i \in 1 .. n |->
        [from |-> EvalTokens[i],
         to |-> IF i = n THEN EvalTokens[1] ELSE EvalTokens[i + 1],
         dex |-> EvalDex[i]]]
EvalPaths == {EvalPath(n) : n \in minHops .. maxHops}

\* config.json is taken as written: loadConfig checks no field, so
\* profitThreshold may be any number, a negative one included (-0.002,
\* 0.0000001, 0.001 and 0.00557 ether), and slippageBuffer may be missing
EvalConfigs ==
    [contractAddr : BOOLEAN, profitThreshold : {-20000, 1, 10000, 55700},
     slippageBuffer : {Null, Some(0), Some(300)}]

\* what DexScreener yields for the pair isProfitable asks about: no prices
\* (a failed request, no pair on base, or fewer than 2 prices), or the
\* series getHistoricalData builds, here 11, 10 and 22, 10, 10, 10
ConvictionData ==
    {<<>>,
     <<DoubleOf(11, 1), DoubleOf(10, 1)>>,
     <<DoubleOf(22, 1), DoubleOf(10, 1), DoubleOf(10, 1), DoubleOf(10, 1)>>}

\* ethers.parseUnits(config.scanAmount || '1', 'ether')
ScanAmount == 10000000

\* what the adapters may answer for a hop: 1.01, 1.001 and 1.02 ether
EvalAnswers ==
    {[uniswap |-> u, aerodrome |-> a, odos |-> o] :
        u \in {Null, Some(Quote("uniswap", Num(10100000), FALSE))},
        a \in {Null, Some(Quote("aerodrome", Num(10100000), FALSE)),
               Some(Quote("aerodrome", Num(10010000), FALSE))},
        o \in {Null, Some(Quote("odos", Num(10100000), TRUE)),
               Some(Quote("odos", Num(10200000), FALSE)),
               Some(Quote("odos", Num(0), TRUE)),
               Some(Quote("odos", Malformed, TRUE))}}

\* the call data Odos assembles for the path it quoted for a hop
OdosCallData(hop, amountIn) ==
    [venue |-> "odos", from |-> hop.from, to |-> hop.to, amountIn |-> amountIn,
     amountOutMin |-> Null]

\* what the sor/assemble request may answer: a failure or no transaction, or
\* a transaction with or without a to address and with or without data
OdosResponses(hop, amountIn) ==
    {Null} \cup {Some([to |-> t, data |-> d]) :
                    t \in {Null, Some("0x0d05")},
                    d \in {Null, Some(OdosCallData(hop, amountIn))}}

Returned(status, value) == [status |-> status, value |-> value]

EvalInit ==
    /\ pathHops \in EvalPaths
    /\ initialAmount = ScanAmount
    /\ config \in EvalConfigs
    /\ pc = "quote"
    /\ hopIdx = 1
    /\ currentAmount = initialAmount
    /\ quote = Null
    /\ executedHops = <<>>
    /\ tokens = <<pathHops[1].from>>
    /\ netProfit = 0
    /\ result = Returned("pending", Null)
    /\ trace = [quoted |-> <<>>, built |-> <<>>, gate |-> Null, simulated |-> Null]
    /\ calcIdle /\ quoteIdle /\ consIdle /\ genIdle /\ botIdle /\ zIdle /\ arbIdle /\ txIdle

\* line 83-86: the quote for the current hop
QuoteHop ==
    /\ pc = "quote"
    /\ \E answers \in EvalAnswers :
          LET hop == pathHops[hopIdx]
              out == getBestHopQuote(answers, Some(hop.dex))
          IN  /\ trace' = [trace EXCEPT !.quoted =
                              Append(@, [hop |-> hopIdx, amountIn |-> currentAmount,
                                          threw |-> out.threw, best |-> out.value])]
              /\ IF out.threw
                 THEN /\ result' = Returned("threw", Null)
                      /\ pc' = "done"
                      /\ quote' = Null
                 ELSE IF out.value = Null
                 THEN /\ result' = Returned("null", Null)
                      /\ pc' = "done"
                      /\ quote' = Null
                 ELSE /\ result' = result
                      /\ pc' = "build"
                      /\ quote' = out.value
    /\ UNCHANGED <<pathHops, initialAmount, config, hopIdx, currentAmount,
                   executedHops, tokens, netProfit,
                   calcVars, quoteVars, consVars, genVars, botVars, zVars, arbVars, txVars>>

\* (mutant: the new step is put in front of the earlier ones)
PushHopMut(hops, swapData) ==
    <<[target |-> swapData.to, data |-> swapData.data]>> \o hops

\* executedHops.push({ target: swapData.to, data: swapData.data })
PushHop(hops, swapData) ==
    Append(hops, [target |-> swapData.to, data |-> swapData.data])

\* (mutant: the next hop starts from the slippage-adjusted minimum)
AdvanceAmountMut(q, cfg) == AmountOutMin(q, cfg.slippageBuffer)

\* currentAmount = BigInt(quote.toTokenAmount)
AdvanceAmount(q, cfg) == q.toTokenAmount.v

\* !swapData || !swapData.to || !swapData.data; every builder's to is a
\* non-empty address
SwapDataMissing(swapData) == swapData = Null \/ swapData[1].data = Null

\* line 88-96: the swap call data for the current hop.  A direct venue's
\* encoding succeeds or fails; for an Odos quote the assemble request answers
\* (the input that the venue does not use is fixed).
BuildHop ==
    /\ pc = "build"
    /\ \E encoded \in IF quote[1].venue = "odos" THEN {TRUE} ELSE BOOLEAN,
          response \in IF quote[1].venue = "odos"
                       THEN OdosResponses(pathHops[hopIdx], currentAmount)
                       ELSE {Null} :
          LET hop == pathHops[hopIdx]
              swapData == buildSwapData(quote[1], hop, currentAmount, config,
                                        encoded, response)
          IN  /\ trace' = [trace EXCEPT !.built =
                              Append(@, [hop |-> hopIdx, quote |-> quote[1],
                                         encoded |-> encoded,
                                         response |-> response])]
              /\ IF SwapDataMissing(swapData)
                 THEN /\ result' = Returned("null", Null)
                      /\ pc' = "done"
                      /\ UNCHANGED <<executedHops, tokens, currentAmount, hopIdx>>
                 ELSE /\ executedHops' = PushHop(executedHops, swapData[1])
                      /\ tokens' = Append(tokens, hop.to)
                      /\ currentAmount' = AdvanceAmount(quote[1], config)
                      /\ hopIdx' = hopIdx + 1
                      /\ pc' = IF hopIdx = Len(pathHops) THEN "profit" ELSE "quote"
                      /\ result' = result
    /\ quote' = Null
    /\ UNCHANGED <<pathHops, initialAmount, config, netProfit,
                   calcVars, quoteVars, consVars, genVars, botVars, zVars, arbVars, txVars>>

Opportunity(np, profitPercent) ==
    [netProfit |-> np, profitPercent |-> profitPercent,
     initialAmount |-> initialAmount, finalAmount |-> currentAmount,
     tokens |-> tokens, hops |-> executedHops]

\* line 98-110 and 125-136: the net profit and the profitability gate.
\* calculateNetProfit throws when config.slippageBuffer is missing, before
\* isProfitable is asked, and evaluatePath rejects.  isProfitable asks
\* isHighConviction of zScoreEngine.js, which computes the z-score of the
\* prices DexScreener yields; an undefined or false answer of isProfitable
\* returns null.
ProfitGate ==
    /\ pc = "profit"
    /\ \E prices \in ConvictionData :
       \E highConviction \in {isHighConviction(computeZScore(prices))} :
          LET calc == calculateNetProfit(currentAmount, initialAmount, GasCostEstimate,
                                         config.slippageBuffer)
              passed == isProfitable(calc.netProfit, config, highConviction)
          IN  /\ netProfit' = calc.netProfit
              /\ trace' = [trace EXCEPT !.gate =
                              IF calc.threw THEN Null
                              ELSE Some([threshold |-> AppliedThreshold(config, highConviction),
                                         prices |-> Len(prices),
                                         highConviction |-> highConviction,
                                         finalAmount |-> currentAmount,
                                         borrowedAmount |-> initialAmount,
                                         passed |-> passed])]
              /\ IF calc.threw
                 THEN /\ result' = Returned("threw", Null)
                      /\ pc' = "done"
                 ELSE IF passed /= Some(TRUE)
                 THEN /\ result' = Returned("null", Null)
                      /\ pc' = "done"
                 ELSE IF config.contractAddr
                 THEN /\ result' = result
                      /\ pc' = "simulate"
                 ELSE /\ result' = Returned("opportunity",
                                       Some(Opportunity(calc.netProfit, calc.profitPercent)))
                      /\ pc' = "done"
    /\ UNCHANGED <<pathHops, initialAmount, config, hopIdx, currentAmount, quote,
                   executedHops, tokens, calcVars, quoteVars, consVars, genVars,
                   botVars, zVars, arbVars, txVars>>

\* (mutant: the outcome of the simulated call is ignored)
SimulationPassedMut(simSuccess) == TRUE

\* if (!simSuccess) return null
SimulationPassed(simSuccess) == simSuccess

\* line 111-133: the simulated call of executeArb
Simulate ==
    /\ pc = "simulate"
    /\ \E simSuccess \in BOOLEAN :
          /\ trace' = [trace EXCEPT !.simulated = Some(simSuccess)]
          /\ result' = IF SimulationPassed(simSuccess)
                       THEN Returned("opportunity",
                                Some(Opportunity(netProfit,
                                         BigIntMulDiv(netProfit, 10000, initialAmount))))
                       ELSE Returned("null", Null)
    /\ pc' = "done"
    /\ UNCHANGED <<pathHops, initialAmount, config, hopIdx, currentAmount, quote,
                   executedHops, tokens, netProfit,
                   calcVars, quoteVars, consVars, genVars, botVars, zVars, arbVars, txVars>>

Next == QuoteHop \/ BuildHop \/ ProfitGate \/ Simulate

Spec == EvalInit /\ [][Next]_vars

EvalDone == pc = "done"
ReturnedNull == EvalDone /\ result = Returned("null", Null)
ReturnedOpportunity == EvalDone /\ result.status = "opportunity"
TheOpportunity == result.value[1]

\* the venue's builder cannot produce call data for a recorded hop: no
\* execution target, a failed encoding, an Odos quote without a pathId, or
\* an assemble request that fails or answers without call data
CannotBuild(b) ==
    \/ ~config.contractAddr
    \/ ~b.encoded
    \/ b.quote.venue = "odos"
          /\ (~b.quote.pathId \/ b.response = Null \/ b.response[1].data = Null)

\* C1: when the quoter returns null for a hop, or the hop's swap call data
\* cannot be built, evaluatePath returns null with no Opportunity, and that
\* hop is the last one quoted.
C1_FailedHopAborts ==
    /\ \A i \in DOMAIN trace.quoted :
          (~trace.quoted[i].threw /\ trace.quoted[i].best = Null)
              => ReturnedNull /\ Len(trace.quoted) = i
    /\ \A i \in DOMAIN trace.built :
          CannotBuild(trace.built[i])
              => /\ ReturnedNull
                 /\ Len(trace.quoted) = trace.built[i].hop
                 /\ Len(trace.built) = i
                 /\ Len(executedHops) = i - 1

C1_Witness ==
    /\ ReturnedNull
    /\ Len(pathHops) = 4
    /\ Len(trace.built) = 2
    /\ config.contractAddr
    /\ trace.built[1].quote.venue = "odos"
    /\ trace.built[1].response /= Null
    /\ trace.built[2].quote.venue = "aerodrome"
    /\ ~trace.built[2].encoded
    /\ Len(trace.quoted) = 2

\* C2: a returned Opportunity has a netProfit strictly above the threshold the
\* gate applied; with an execution target configured the call was simulated
\* and succeeded; a failed simulation returns null.
C2_GateAndSimulation ==
    /\ ReturnedOpportunity =>
          /\ trace.gate # Null
          /\ trace.gate[1].passed = Some(TRUE)
          /\ trace.gate[1].threshold # Null
          /\ TheOpportunity.netProfit > trace.gate[1].threshold[1]
          /\ config.profitThreshold >= 0
                => TheOpportunity.netProfit > config.profitThreshold
          /\ config.contractAddr => trace.simulated = Some(TRUE)
    /\ (EvalDone /\ trace.simulated = Some(FALSE)) => ReturnedNull
    /\ (EvalDone /\ config.contractAddr /\ trace.gate # Null
            /\ trace.gate[1].passed = Some(TRUE))
          => trace.simulated # Null

C2_Witness ==
    /\ ReturnedOpportunity
    /\ config.contractAddr
    /\ trace.simulated = Some(TRUE)
    /\ config.profitThreshold = 10000
    /\ trace.gate[1].prices = 4
    /\ trace.gate[1].threshold = Some(10000)
    /\ TheOpportunity.netProfit > 10000

\* the target of the step built for a recorded hop: the venue's router, or
\* for Odos the address the assemble answer names when it names one
StepTarget(b) ==
    IF b.quote.venue = "odos" /\ b.response[1].to /= Null
    THEN b.response[1].to[1]
    ELSE RouterOf(b.quote.venue)

\* C9: a returned Opportunity carries one execution step per hop of the
\* evaluated path, the i-th step being the one built for the i-th hop: its
\* call data swaps that hop's tokens, for the amount the hop was quoted for,
\* on the venue whose quote was taken, and its target is that venue's.
C9_StepPerHop ==
    ReturnedOpportunity =>
        /\ Len(TheOpportunity.hops) = Len(pathHops)
        /\ \A i \in DOMAIN pathHops :
              /\ TheOpportunity.hops[i].data /= Null
              /\ TheOpportunity.hops[i].data[1].from = pathHops[i].from
              /\ TheOpportunity.hops[i].data[1].to = pathHops[i].to
              /\ TheOpportunity.hops[i].data[1].venue = trace.built[i].quote.venue
              /\ TheOpportunity.hops[i].target = StepTarget(trace.built[i])
              /\ TheOpportunity.hops[i].data[1].amountIn = trace.quoted[i].amountIn
        /\ TheOpportunity.hops[1].data[1].amountIn = initialAmount

C9_Witness ==
    /\ ReturnedOpportunity
    /\ Len(pathHops) = 3
    /\ Len(TheOpportunity.hops) = 3
    /\ TheOpportunity.hops[1].data[1].venue = "uniswap"
    /\ TheOpportunity.hops[2].data[1].venue = "odos"
    /\ TheOpportunity.hops[2].target = RouterOf("odos")
    /\ TheOpportunity.hops[3].data[1].venue = "odos"
    /\ TheOpportunity.hops[3].target = "0x0d05"

\* C19: with no execution target configured, an evaluation in which no hop
\* lacked a quote, no venue failed to encode its call data and the gate did
\* not reject returns an Opportunity, the simulation alone being skipped.
C19_DryRunOpportunity ==
    (/\ EvalDone
     /\ ~config.contractAddr
     /\ \A i \in DOMAIN trace.quoted :
           ~trace.quoted[i].threw /\ trace.quoted[i].best /= Null
     /\ \A i \in DOMAIN trace.built :
           /\ trace.built[i].encoded
           /\ trace.built[i].quote.venue = "odos" =>
                 /\ trace.built[i].quote.pathId
                 /\ trace.built[i].response /= Null
                 /\ trace.built[i].response[1].data /= Null
     /\ trace.gate /= Null => trace.gate[1].passed = Some(TRUE))
        => /\ ReturnedOpportunity
           /\ trace.simulated = Null

\* C21: the first hop is quoted for initialAmount, hop i+1 is quoted for the raw
\* output amount of the quote taken for hop i, and the profit calculation is
\* given the raw output of the last hop's quote and initialAmount.
C21_RawAmountChain ==
    /\ \A i \in DOMAIN trace.quoted :
          trace.quoted[i].amountIn =
              IF i = 1 THEN initialAmount
              ELSE trace.built[i - 1].quote.toTokenAmount.v
    /\ trace.gate /= Null =>
          /\ Len(trace.built) = Len(pathHops)
          /\ trace.gate[1].finalAmount
                = trace.built[Len(pathHops)].quote.toTokenAmount.v
          /\ trace.gate[1].borrowedAmount = initialAmount
    /\ ReturnedOpportunity =>
          TheOpportunity.finalAmount
              = trace.built[Len(pathHops)].quote.toTokenAmount.v

\* C23: whatever the adapters answer for a hop (a quote, null after an error,
\* a timeout or a rate-limit rejection, or a malformed response), the quoter
\* hands evaluatePath a quote or null and never an exception.
C23_NoExceptionFromQuoter ==
    /\ \A i \in DOMAIN trace.quoted : ~trace.quoted[i].threw
    /\ config.slippageBuffer /= Null => result.status /= "threw"

C21_Witness ==
    /\ ReturnedOpportunity
    /\ Len(pathHops) = 3
    /\ trace.quoted[2].amountIn = 10100000
    /\ trace.quoted[3].amountIn = 10010000
    /\ trace.gate[1].finalAmount = 10100000
    /\ trace.built[2].quote.venue = "aerodrome"
    /\ AmountOutMin(trace.built[2].quote, config.slippageBuffer) < 10010000

(***************************************************************************)
(* SpecSend: the transaction sender (sendPrivateTransaction, getNextNonce, *)
(* resetNonce).  Calls run on one event loop: an action is the code of one *)
(* call between two awaits, and the calls in progress interleave at their  *)
(* awaits.  Gas prices are in units of 0.01 gwei.  The actions constrain   *)
(* the sender's variables only; a specification that runs them adds what   *)
(* else stays unchanged.                                                   *)
(***************************************************************************)
MaxSends == 3
SendSlots == 1 .. 2

\* config.maxGasPriceGwei as written in config.json: absent, 0, 0.05 gwei
GasConfigs == {Null, Some(0), Some(5)}

\* config.maxGasPriceGwei || 0.1, in gwei, as maxGasWei
DefaultMaxGas == 10
MaxGasWei(cfgMax) == IF cfgMax = Null \/ cfgMax[1] = 0 THEN DefaultMaxGas ELSE cfgMax[1]

\* what provider.getFeeData() may resolve to
FeeDataSet ==
    {[maxFeePerGas |-> Some(3), gasPrice |-> Some(3)],
     [maxFeePerGas |-> Some(30), gasPrice |-> Some(30)],
     [maxFeePerGas |-> Null, gasPrice |-> Some(3)]}

\* feeData.maxFeePerGas || feeData.gasPrice
CurrentGas(feeData) ==
    IF feeData.maxFeePerGas /= Null /\ feeData.maxFeePerGas[1] /= 0
    THEN feeData.maxFeePerGas ELSE feeData.gasPrice

\* currentGas > maxGasWei; a null price compares as 0
ExceedsMax(currentGas, cfgMax) ==
    (IF currentGas = Null THEN 0 ELSE currentGas[1]) > MaxGasWei(cfgMax)

\* a call's locals and the fields it sets on tx
IdleCall == [pc |-> "idle", gasLimit |-> FALSE, currentGas |-> Null,
             maxFeePerGas |-> Null, returned |-> Null, txNonce |-> Null, epoch |-> 0,
             result |-> "none"]

\* the module as loaded: let nonce = null, and no call in progress in any of
\* the caller's slots
SenderLoaded(gasConfigs, slots) ==
    /\ nonce = Null
    /\ maxGasPriceGwei \in gasConfigs
    /\ walletCount = 0
    /\ sendCalls = [c \in slots |-> IdleCall]
    /\ sendStarted = 0
    /\ resets = 0
    /\ nonceLog = <<>>
    /\ sendLog = <<>>

SendInit ==
    /\ SenderLoaded(GasConfigs, SendSlots)
    /\ calcIdle /\ quoteIdle /\ consIdle /\ genIdle /\ evalIdle /\ botIdle /\ zIdle /\ arbIdle

SendRest == <<calcVars, quoteVars, consVars, genVars, evalVars, botVars, zVars, arbVars>>

\* the call of wallet.sendTransaction(tx) in line 77
PassToWallet(c, call) ==
    Append(sendLog, [call |-> c, nonce |-> call.txNonce[1], epoch |-> call.epoch,
                     passed |-> resets, currentGas |-> call.currentGas])

\* line 76-77 with the gas limit set: ethers.formatUnits(tx.maxFeePerGas, 'gwei')
\* in the log line throws on null, which leads to the catch block; otherwise
\* the transaction is passed to the wallet
LogAndPass(c, call) ==
    IF call.maxFeePerGas = Null
    THEN /\ sendCalls' = [sendCalls EXCEPT ![c] = [call EXCEPT !.pc = "reset"]]
         /\ sendLog' = sendLog
    ELSE /\ sendCalls' = [sendCalls EXCEPT ![c] = [call EXCEPT !.pc = "sending"]]
         /\ sendLog' = PassToWallet(c, call)

\* line 32: return nonce++ with the local nonce n; the call now awaits the
\* promise of getNextNonce, which holds n
ReturnNonce(c, call, n) ==
    /\ nonce' = Some(n + 1)
    /\ nonceLog' = Append(nonceLog, [call |-> c, nonce |-> n, epoch |-> resets])
    /\ sendCalls' = [sendCalls EXCEPT ![c] =
                        [call EXCEPT !.returned = Some(n), !.epoch = resets, !.pc = "nonce"]]

\* line 46-51: sendPrivateTransaction(tx) is called, tx with or without a
\* gasLimit, and awaits provider.getFeeData()
SendBegin(c, gasLimit) ==
    /\ sendCalls[c].pc \in {"idle", "done"}
    /\ sendStarted' = sendStarted + 1
    /\ sendCalls' = [sendCalls EXCEPT ![c] = [IdleCall EXCEPT !.pc = "fee",
                                                              !.gasLimit = gasLimit]]
    /\ UNCHANGED <<nonce, maxGasPriceGwei, walletCount, resets, nonceLog, sendLog>>

\* a caller starts a call
SendStart(c) ==
    /\ sendStarted < MaxSends
    /\ \E gasLimit \in BOOLEAN : SendBegin(c, gasLimit)

\* line 51-66 and 28-32: the fee data arrive (or the request fails), the gas
\* price is checked, and getNextNonce runs up to its await or its return
FeeDataSettles(c) ==
    /\ sendCalls[c].pc = "fee"
    /\ \/ /\ sendCalls' = [sendCalls EXCEPT ![c].pc = "reset"]
          /\ UNCHANGED <<nonce, nonceLog>>
       \/ \E feeData \in FeeDataSet :
             LET checked == [sendCalls[c] EXCEPT !.currentGas = CurrentGas(feeData)]
                 call == [checked EXCEPT !.maxFeePerGas = feeData.maxFeePerGas]
             IN  IF ExceedsMax(CurrentGas(feeData), maxGasPriceGwei)
                 THEN /\ sendCalls' = [sendCalls EXCEPT ![c] =
                                          [checked EXCEPT !.pc = "done", !.result = "null"]]
                      /\ UNCHANGED <<nonce, nonceLog>>
                 ELSE IF nonce = Null
                 THEN /\ sendCalls' = [sendCalls EXCEPT ![c] = [call EXCEPT !.pc = "getNonce"]]
                      /\ UNCHANGED <<nonce, nonceLog>>
                 ELSE ReturnNonce(c, call, nonce[1])
    /\ UNCHANGED <<maxGasPriceGwei, walletCount, sendStarted, resets, sendLog>>

\* line 30-32: wallet.getNonce() settles inside getNextNonce, with the
\* wallet's transaction count or a failure
GetNonceSettles(c) ==
    /\ sendCalls[c].pc = "getNonce"
    /\ \/ /\ sendCalls' = [sendCalls EXCEPT ![c].pc = "reset"]
          /\ UNCHANGED <<nonce, nonceLog>>
       \/ ReturnNonce(c, sendCalls[c], walletCount)
    /\ UNCHANGED <<maxGasPriceGwei, walletCount, sendStarted, resets, sendLog>>

\* line 66-77: the await of getNextNonce() resumes, tx.nonce is assigned and
\* the transaction is passed to the wallet, or its gas is estimated first
NonceAssigned(c) ==
    /\ sendCalls[c].pc = "nonce"
    /\ LET assigned == [sendCalls[c] EXCEPT !.txNonce = sendCalls[c].returned]
       IN  IF assigned.gasLimit
           THEN LogAndPass(c, assigned)
           ELSE /\ sendCalls' = [sendCalls EXCEPT ![c] = [assigned EXCEPT !.pc = "estimate"]]
                /\ sendLog' = sendLog
    /\ UNCHANGED <<nonce, maxGasPriceGwei, walletCount, sendStarted, resets, nonceLog>>

\* line 72-77: provider.estimateGas(tx) settles
EstimateSettles(c) ==
    /\ sendCalls[c].pc = "estimate"
    /\ \/ /\ sendCalls' = [sendCalls EXCEPT ![c].pc = "reset"]
          /\ sendLog' = sendLog
       \/ LogAndPass(c, [sendCalls[c] EXCEPT !.gasLimit = TRUE])
    /\ UNCHANGED <<nonce, maxGasPriceGwei, walletCount, sendStarted, resets, nonceLog>>

\* line 77-80: wallet.sendTransaction(tx) settles.  walletCount is the
\* transaction count the network reports for the wallet: a transaction the
\* wallet has sent may or may not have raised it yet.
SendSettles(c) ==
    /\ sendCalls[c].pc = "sending"
    /\ \/ /\ sendCalls' = [sendCalls EXCEPT ![c].pc = "reset"]
          /\ walletCount' = walletCount
       \/ /\ sendCalls' = [sendCalls EXCEPT ![c].pc = "done", ![c].result = "sent"]
          /\ walletCount' \in {walletCount, walletCount + 1}
    /\ UNCHANGED <<nonce, maxGasPriceGwei, sendStarted, resets, nonceLog, sendLog>>

\* line 81-86 and 38-40: the catch block's resetNonce settles; when
\* wallet.getNonce() fails the wrapper of withErrorHandling returns undefined
ResetSettles(c) ==
    /\ sendCalls[c].pc = "reset"
    /\ \/ /\ nonce' = Some(walletCount)
          /\ resets' = resets + 1
          /\ sendCalls' = [sendCalls EXCEPT ![c].pc = "done", ![c].result = "null"]
       \/ /\ sendCalls' = [sendCalls EXCEPT ![c].pc = "done", ![c].result = "undefined"]
          /\ UNCHANGED <<nonce, resets>>
    /\ UNCHANGED <<maxGasPriceGwei, walletCount, sendStarted, nonceLog, sendLog>>

\* line 38-39: the exported resetNonce() is called by a user of the module
\* and awaits wallet.getNonce()
ResetNonceStart(c) ==
    /\ sendStarted < MaxSends
    /\ sendCalls[c].pc \in {"idle", "done"}
    /\ sendStarted' = sendStarted + 1
    /\ sendCalls' = [sendCalls EXCEPT ![c] = [IdleCall EXCEPT !.pc = "resetNonce"]]
    /\ UNCHANGED <<nonce, maxGasPriceGwei, walletCount, resets, nonceLog, sendLog>>

\* line 39: wallet.getNonce() settles inside that call; a failure rejects it
ResetNonceSettles(c) ==
    /\ sendCalls[c].pc = "resetNonce"
    /\ \/ /\ nonce' = Some(walletCount)
          /\ resets' = resets + 1
          /\ sendCalls' = [sendCalls EXCEPT ![c].pc = "done", ![c].result = "reset"]
       \/ /\ sendCalls' = [sendCalls EXCEPT ![c].pc = "done", ![c].result = "rejected"]
          /\ UNCHANGED <<nonce, resets>>
    /\ UNCHANGED <<maxGasPriceGwei, walletCount, sendStarted, nonceLog, sendLog>>

SendNext ==
    /\ \E c \in SendSlots :
          \/ SendStart(c) \/ FeeDataSettles(c) \/ GetNonceSettles(c)
          \/ NonceAssigned(c) \/ EstimateSettles(c) \/ SendSettles(c)
          \/ ResetSettles(c) \/ ResetNonceStart(c) \/ ResetNonceSettles(c)
    /\ UNCHANGED SendRest

SpecSend == SendInit /\ [][SendNext]_vars

\* C28: two transactions passed to wallet.sendTransaction carry the same nonce
\* only if a nonce reset happened between them (between the moments
\* getNextNonce returned their nonces, or between the moments they were
\* passed to the wallet), and the nonces getNextNonce returns between two
\* resets are consecutive.
C28_NoncesDistinct ==
    /\ \A i, j \in DOMAIN sendLog :
          (i < j /\ sendLog[i].nonce = sendLog[j].nonce)
              => \/ sendLog[i].epoch /= sendLog[j].epoch
                 \/ sendLog[i].passed /= sendLog[j].passed
    /\ \A i \in 1 .. (Len(nonceLog) - 1) :
          nonceLog[i].epoch = nonceLog[i + 1].epoch
              => nonceLog[i + 1].nonce = nonceLog[i].nonce + 1

\* C30: no transaction is passed to wallet.sendTransaction with a current gas
\* price above the configured maximum; a call that finds the price above the
\* maximum returns null, sends nothing and leaves the nonce as it was.
C30_NeverAboveMax ==
    /\ \A i \in DOMAIN sendLog :
          ~(/\ maxGasPriceGwei /= Null
            /\ sendLog[i].currentGas /= Null
            /\ sendLog[i].currentGas[1] > maxGasPriceGwei[1])
    /\ \A c \in SendSlots :
          (/\ sendCalls[c].pc = "done"
           /\ sendCalls[c].currentGas /= Null
           /\ sendCalls[c].currentGas[1]
                 > (IF maxGasPriceGwei = Null THEN DefaultMaxGas ELSE maxGasPriceGwei[1]))
              => /\ sendCalls[c].result = "null"
                 /\ sendCalls[c].txNonce = Null

(***************************************************************************)
(* SpecBot: bot.js startScanning, with scanAllPaths' batches inside each   *)
(* cycle and handleOpportunity, which sends through the transaction        *)
(* sender's call slot 1.  An action is the code between two awaits.  Each  *)
(* evaluatePath call of a batch settles on its own, in any order, as null, *)
(* as an Opportunity or as a rejection; SIGINT / SIGTERM may arrive at any *)
(* time.                                                                   *)
(***************************************************************************)
MaxScanPaths == 6
MaxCycles == 2

\* const batchSize = 5
batchSize == 5

\* the net profit an evaluation of path p reports when it is profitable
ScanProfit(p) == IF p % 2 = 1 THEN 56 ELSE 60

ScanPathLists == {[i \in 1 .. n |-> i] : n \in 0 .. MaxScanPaths}

\* what one evaluatePath(p, ...) promise settles to
EvalOutcomes(p) ==
    {[status |-> "fulfilled", value |-> Null], [status |-> "rejected", value |-> Null]}
    \cup {[status |-> "fulfilled",
            value |-> Some([path |-> p, netProfit |-> ScanProfit(p)])]}

\* (mutant: the slice takes one path more than batchSize)
BatchOfMut(i) == {j \in DOMAIN scanPaths : j >= i /\ j <= i + batchSize}

\* paths.slice(i, i + batchSize), as indices into paths
BatchOf(i) == {j \in DOMAIN scanPaths : j >= i /\ j < i + batchSize}

\* (mutant: the results after the first rejected one are dropped)
RECURSIVE CollectFulfilledMut(_)
CollectFulfilledMut(results) ==
    IF results = <<>> \/ Head(results).status = "rejected" THEN <<>>
    ELSE (IF Head(results).value /= Null THEN <<Head(results).value[1]>> ELSE <<>>)
         \o CollectFulfilledMut(Tail(results))

\* for (const result of results)
\*     if (result.status === 'fulfilled' && result.value) opportunities.push(result.value)
RECURSIVE CollectFulfilled(_)
CollectFulfilled(results) ==
    IF results = <<>> THEN <<>>
    ELSE (IF Head(results).status = "fulfilled" /\ Head(results).value /= Null
          THEN <<Head(results).value[1]>> ELSE <<>>)
         \o CollectFulfilled(Tail(results))

\* (mutant: the comparator's signs are exchanged, the order is ascending)
RECURSIVE SortByProfitMut(_)
SortByProfitMut(opps) ==
    IF Len(opps) <= 1 THEN opps
    ELSE LET front == SortByProfitMut(SubSeq(opps, 1, Len(opps) - 1))
             pivot == opps[Len(opps)]
         IN  SelectSeq(front, LAMBDA o : o.netProfit <= pivot.netProfit)
             \o <<pivot>>
             \o SelectSeq(front, LAMBDA o : o.netProfit > pivot.netProfit)

\* opportunities.sort((a, b) => profitB > profitA ? 1 : profitB < profitA ? -1 : 0)
\* a stable sort, descending by netProfit
RECURSIVE SortByProfit(_)
SortByProfit(opps) ==
    IF Len(opps) <= 1 THEN opps
    ELSE LET front == SortByProfit(SubSeq(opps, 1, Len(opps) - 1))
             pivot == opps[Len(opps)]
         IN  SelectSeq(front, LAMBDA o : o.netProfit >= pivot.netProfit)
             \o <<pivot>>
             \o SelectSeq(front, LAMBDA o : o.netProfit < pivot.netProfit)

\* (mutant: the exception leaves the loop)
AfterCycleErrorMut == "crashed"

\* catch (error) { log(...) } of the loop body, followed by the sleep
AfterCycleError == "sleep"

\* the sender's call slot handleOpportunity uses
BotSlot == 1

BotInit ==
    /\ isRunning = FALSE
    /\ exited = FALSE
    /\ scanCount = 0
    /\ botPc = "start"
    /\ scanPaths \in ScanPathLists
    /\ batchStart = 0
    /\ settled = <<>>
    /\ opportunities = <<>>
    /\ cycleLog = EmptyCycleLog
    /\ SenderLoaded({Null}, {BotSlot})
    /\ calcIdle /\ quoteIdle /\ consIdle /\ genIdle /\ evalIdle /\ zIdle /\ arbIdle

MaxLivePaths == 2

\* the same start with a short list of paths (a single batch)
BotLiveInit == BotInit /\ Len(scanPaths) <= MaxLivePaths

BotRest == <<calcVars, quoteVars, consVars, genVars, evalVars, zVars, arbVars>>

\* line 97-98
StartScanning ==
    /\ ~exited /\ botPc = "start"
    /\ isRunning' = TRUE
    /\ botPc' = "loop"
    /\ UNCHANGED <<exited, scanCount, scanPaths, batchStart, settled, opportunities,
                   cycleLog, BotRest, txVars>>

\* line 100-105 and scanAllPaths line 143-148: a cycle begins
BeginCycle ==
    /\ ~exited /\ botPc = "loop" /\ isRunning
    /\ scanCount < MaxCycles
    /\ scanCount' = scanCount + 1
    /\ opportunities' = <<>>
    /\ batchStart' = 1
    /\ settled' = <<>>
    /\ cycleLog' = [EmptyCycleLog EXCEPT !.prevRaised = cycleLog.raised]
    /\ botPc' = "scan"
    /\ UNCHANGED <<isRunning, exited, scanPaths, BotRest, txVars>>

\* scanAllPaths line 152-159: the evaluations of the next batch are started
BeginBatch ==
    /\ ~exited /\ botPc = "scan"
    /\ batchStart <= Len(scanPaths)
    /\ settled' = [j \in BatchOf(batchStart) |-> Null]
    /\ cycleLog' = [cycleLog EXCEPT !.started = @ \cup BatchOf(batchStart)]
    /\ botPc' = "batch"
    /\ UNCHANGED <<isRunning, exited, scanCount, scanPaths, batchStart, opportunities,
                   BotRest, txVars>>

\* one evaluatePath promise of the batch settles
SettleEvaluation ==
    /\ ~exited /\ botPc = "batch"
    /\ \E j \in DOMAIN settled :
          /\ settled[j] = Null
          /\ \E outcome \in EvalOutcomes(scanPaths[j]) :
                /\ settled' = [settled EXCEPT ![j] = Some(outcome)]
                /\ cycleLog' =
                      [cycleLog EXCEPT
                          !.yielded = IF outcome.value /= Null
                                      THEN @ \cup {outcome.value[1]} ELSE @,
                          !.rejected = IF outcome.status = "rejected"
                                       THEN @ \cup {j} ELSE @,
                          !.finished = @ \cup {j}]
    /\ UNCHANGED <<isRunning, exited, scanCount, botPc, scanPaths, batchStart,
                   opportunities, BotRest, txVars>>

\* scanAllPaths line 154 and 161-166: Promise.allSettled resolves once every
\* evaluation of the batch has settled, and the results are gone through in
\* the batch's order
CollectBatch ==
    /\ ~exited /\ botPc = "batch"
    /\ \A j \in DOMAIN settled : settled[j] /= Null
    /\ LET n == Cardinality(DOMAIN settled)
           results == [k \in 1 .. n |-> settled[batchStart + k - 1][1]]
       IN  opportunities' = opportunities \o CollectFulfilled(results)
    /\ batchStart' = batchStart + batchSize
    /\ settled' = <<>>
    /\ botPc' = "scan"
    /\ UNCHANGED <<isRunning, exited, scanCount, scanPaths, cycleLog, BotRest, txVars>>

\* scanAllPaths line 152 and 172-173: no path is left, the list is returned
ScanReturns ==
    /\ ~exited /\ botPc = "scan"
    /\ batchStart > Len(scanPaths)
    /\ cycleLog' = [cycleLog EXCEPT !.found = Some(opportunities)]
    /\ botPc' = "select"
    /\ UNCHANGED <<isRunning, exited, scanCount, scanPaths, batchStart, settled,
                   opportunities, BotRest, txVars>>

\* scanAllPaths line 168-173: an exception inside the try block is logged and
\* the opportunities collected so far are returned
ScanRaises ==
    /\ ~exited /\ botPc = "scan"
    /\ cycleLog' = [cycleLog EXCEPT !.found = Some(opportunities), !.raised = TRUE]
    /\ botPc' = "select"
    /\ UNCHANGED <<isRunning, exited, scanCount, scanPaths, batchStart, settled,
                   opportunities, BotRest, txVars>>

\* the cycle's log once the list scanAllPaths returned has been taken: the
\* record of the evaluations started, settled and rejected during the scan
\* is closed
ScanClosed == [cycleLog EXCEPT !.rejected = {}, !.started = {}, !.finished = {}]

\* line 107-118 and 122-124: the best opportunity is handed to
\* handleOpportunity, or there is none.  handleOpportunity runs up to its
\* first await (line 20-45): it throws before its try block and the loop's
\* catch takes over, it returns null (invalid opportunity data, or no
\* contract address), or it awaits populateTransaction.
SelectBest ==
    /\ ~exited /\ botPc = "select"
    /\ IF Len(opportunities) > 0
       THEN /\ opportunities' = SortByProfit(opportunities)
            /\ \E early \in {"throws", "null", "awaits"} :
                  /\ cycleLog' = [ScanClosed EXCEPT
                                     !.handedOff = Append(@, SortByProfit(opportunities)[1]),
                                     !.raised = IF early = "throws" THEN TRUE ELSE @]
                  /\ botPc' = CASE early = "throws" -> AfterCycleError
                                 [] early = "null" -> "sleep"
                                 [] OTHER -> "execute"
       ELSE /\ botPc' = "sleep"
            /\ cycleLog' = ScanClosed
            /\ UNCHANGED opportunities
    /\ UNCHANGED <<isRunning, exited, scanCount, scanPaths, batchStart, settled, BotRest, txVars>>

\* handleOpportunity line 45-53: populateTransaction settles; a rejection is
\* caught in line 83 and { success: false } is returned, else
\* wallet.provider.estimateGas is awaited
PopulateSettles ==
    /\ ~exited /\ botPc = "execute"
    /\ \E populated \in BOOLEAN : botPc' = IF populated THEN "estimate" ELSE "sleep"
    /\ UNCHANGED <<isRunning, exited, scanCount, scanPaths, batchStart, settled,
                   opportunities, cycleLog, BotRest, txVars>>

\* handleOpportunity line 53-64: estimateGas settles; tx.gasLimit is set to
\* the estimate with its buffer or, on a rejection, to 500000n, and
\* sendPrivateTransaction(tx) is called and awaited
GasEstimateSettles ==
    /\ ~exited /\ botPc = "estimate"
    /\ SendBegin(BotSlot, TRUE)
    /\ botPc' = "send"
    /\ UNCHANGED <<isRunning, exited, scanCount, scanPaths, batchStart, settled,
                   opportunities, cycleLog, BotRest>>

\* a step of the call of sendPrivateTransaction that handleOpportunity awaits
\* in line 64; the tx has a gasLimit, so the sender does not estimate
SenderSettles ==
    /\ ~exited /\ botPc = "send"
    /\ \/ FeeDataSettles(BotSlot) \/ GetNonceSettles(BotSlot) \/ NonceAssigned(BotSlot)
       \/ SendSettles(BotSlot) \/ ResetSettles(BotSlot)
    /\ UNCHANGED <<isRunning, exited, scanCount, botPc, scanPaths, batchStart, settled,
                   opportunities, cycleLog, BotRest>>

\* handleOpportunity line 64-70 and 90: the call of sendPrivateTransaction
\* has returned and its frame is gone; with a response handleOpportunity
\* awaits txResponse.wait(1), without one it returns null
AfterSend(call) == IF call.result = "sent" THEN "confirm" ELSE "sleep"

SendReturns ==
    /\ ~exited /\ botPc = "send"
    /\ sendCalls[BotSlot].pc = "done"
    /\ botPc' = AfterSend(sendCalls[BotSlot])
    /\ sendCalls' = [sendCalls EXCEPT ![BotSlot] = IdleCall]
    /\ UNCHANGED <<nonce, maxGasPriceGwei, walletCount, sendStarted, resets, nonceLog,
                   sendLog>>
    /\ UNCHANGED <<isRunning, exited, scanCount, scanPaths, batchStart, settled,
                   opportunities, cycleLog, BotRest>>

\* handleOpportunity line 70-86: txResponse.wait(1) settles: a receipt with
\* status 1, a reverted one, or a rejection caught in line 83; in each case
\* an object is returned and the loop goes on to its sleep
ReceiptSettles ==
    /\ ~exited /\ botPc = "confirm"
    /\ botPc' = "sleep"
    /\ UNCHANGED <<isRunning, exited, scanCount, scanPaths, batchStart, settled,
                   opportunities, cycleLog, BotRest, txVars>>

\* line 129: await sleep(SCAN_INTERVAL)
Sleep ==
    /\ ~exited /\ botPc = "sleep"
    /\ botPc' = "loop"
    /\ UNCHANGED <<isRunning, exited, scanCount, scanPaths, batchStart, settled,
                   opportunities, cycleLog, BotRest, txVars>>

\* line 223-229: the handler of SIGINT and SIGTERM
Shutdown ==
    /\ ~exited /\ botPc /= "start"
    /\ isRunning' = FALSE
    /\ exited' = TRUE
    /\ UNCHANGED <<scanCount, botPc, scanPaths, batchStart, settled, opportunities,
                   cycleLog, BotRest, txVars>>

BotStep ==
    \/ StartScanning \/ BeginCycle \/ BeginBatch \/ SettleEvaluation
    \/ CollectBatch \/ ScanReturns \/ ScanRaises \/ SelectBest
    \/ PopulateSettles \/ GasEstimateSettles \/ SenderSettles \/ SendReturns
    \/ ReceiptSettles
    \/ Sleep

BotNext == BotStep \/ Shutdown

SpecBot == BotInit /\ [][BotNext]_vars

\* The event loop runs every continuation that is ready, the sleep timer
\* fires, and every awaited call settles: a step of the loop that can be
\* taken is eventually taken.  No signal is ever required to arrive.
SpecBotLive == BotLiveInit /\ [][BotNext]_vars /\ WF_vars(BotStep)

ScanReturned == cycleLog.found /= Null
FoundList == cycleLog.found[1]

\* C13: in a scan cycle at most one opportunity is handed to
\* handleOpportunity, and its netProfit is at least that of every
\* opportunity scanAllPaths returned in that cycle.
C13_SingleBestHandOff ==
    /\ Len(cycleLog.handedOff) <= 1
    /\ Len(cycleLog.handedOff) = 1 =>
          /\ ScanReturned
          /\ \E i \in 1 .. Len(FoundList) : FoundList[i] = cycleLog.handedOff[1]
          /\ \A i \in 1 .. Len(FoundList) :
                cycleLog.handedOff[1].netProfit >= FoundList[i].netProfit
    /\ (/\ botPc \in {"execute", "estimate", "send", "confirm", "sleep"}
        /\ ScanReturned /\ Len(FoundList) > 0)
          => Len(cycleLog.handedOff) = 1

C13_Witness ==
    /\ botPc = "execute"
    /\ Len(FoundList) >= 3
    /\ cycleLog.handedOff[1] /= FoundList[1]
    /\ \E i \in 1 .. Len(FoundList) :
          FoundList[i].netProfit < cycleLog.handedOff[1].netProfit

\* C14: the list scanAllPaths returns holds every Opportunity an evaluation
\* of the cycle yielded, once each and in path order, whatever evaluations
\* of the same batch were rejected.
C14_SiblingsUnaffected ==
    ScanReturned =>
        /\ \A o \in cycleLog.yielded :
              Cardinality({i \in 1 .. Len(FoundList) : FoundList[i] = o}) = 1
        /\ \A i \in 1 .. Len(FoundList) : FoundList[i] \in cycleLog.yielded
        /\ \A i, k \in 1 .. Len(FoundList) :
              i < k => FoundList[i].path < FoundList[k].path

C14_Witness ==
    /\ ScanReturned
    /\ 2 \in cycleLog.rejected
    /\ \E o \in cycleLog.yielded : o.path = 1
    /\ \E o \in cycleLog.yielded : o.path = 4
    /\ Len(FoundList) = 2

\* C15: the process exits on a signal only once the cycle in progress is
\* finished, i.e. while the loop sleeps or is about to begin a cycle, never
\* inside a batch or during the hand-off.
C15_ExitAfterCycle ==
    exited => botPc \in {"loop", "sleep"}

\* C16: while the process has not been shut down, each cycle is followed by
\* the next one, whether or not the cycle raised an exception.
C16_NextCycle ==
    \A n \in 1 .. (MaxCycles - 1) :
        (scanCount = n) ~> (scanCount = n + 1 \/ exited)

C16_Witness ==
    /\ scanCount = 2
    /\ botPc = "scan"
    /\ cycleLog.prevRaised
    /\ ~exited

\* the evaluations of the current scan that have started and not yet settled
InFlight == cycleLog.started \ cycleLog.finished
BatchIndex(j) == (j - 1) \div batchSize

\* C24: during scanAllPaths at most 5 path evaluations are in flight, and an
\* evaluation of a later batch has started only when every evaluation of
\* every earlier batch has settled.
C24_BoundedFanOut ==
    /\ Cardinality(InFlight) <= 5
    /\ \A j \in cycleLog.started :
          \A i \in DOMAIN scanPaths :
              BatchIndex(i) < BatchIndex(j) => i \in cycleLog.finished

C24_Witness ==
    /\ botPc = "batch"
    /\ Len(scanPaths) > 5
    /\ InFlight = {6}
    /\ cycleLog.finished = 1 .. 5
    /\ cycleLog.rejected /= {}

(***************************************************************************)
(* SpecZScore: computeZScore and isHighConviction applied to the prices    *)
(* getHistoricalData may collect (priceUsd and up to three reconstructed   *)
(* prices), and the threshold isProfitable then applies.                   *)
(***************************************************************************)
MaxPrices == 4

\* parseFloat of "0.1", "10", "11" and "22"
PriceValues == {DoubleOf(1, 10), DoubleOf(10, 1), DoubleOf(11, 1), DoubleOf(22, 1)}

PriceSeries == UNION {[1 .. k -> PriceValues] : k \in 0 .. MaxPrices}

ZInit ==
    /\ zIn \in PriceSeries
    /\ zOut = Null
    /\ calcIdle /\ quoteIdle /\ consIdle /\ genIdle /\ evalIdle /\ botIdle /\ arbIdle /\ txIdle

ZApply ==
    /\ zOut = Null
    /\ LET z == computeZScore(zIn)
           cfg == [contractAddr |-> TRUE, profitThreshold |-> 10, slippageBuffer |-> Some(300)]
       IN  zOut' = Some([zScore |-> z,
                         highConviction |-> isHighConviction(z),
                         threshold |-> AppliedThreshold(cfg, isHighConviction(z))[1]])
    /\ UNCHANGED <<zIn, calcVars, quoteVars, consVars, genVars, evalVars, botVars, arbVars, txVars>>

ZNext == ZApply

SpecZScore == ZInit /\ [][ZNext]_vars

ZDone == zOut /= Null
ZResult == zOut[1]
ZAllEqual == Len(zIn) >= 2 /\ \A i \in 1 .. Len(zIn) : zIn[i] = zIn[1]

\* C17: computeZScore returns exactly 0 for a series of equal prices and
\* null for fewer than 2 prices; in both cases isHighConviction is false and
\* the normal threshold is applied.
C17_ConstantSeriesIsZero ==
    ZDone =>
        /\ ZAllEqual => /\ ZResult.zScore = Some(FZero)
                        /\ ~ZResult.highConviction
                        /\ ZResult.threshold = 10
        /\ Len(zIn) < 2 => /\ ZResult.zScore = Null
                           /\ ~ZResult.highConviction
                           /\ ZResult.threshold = 10

(***************************************************************************)
(* BaseAlphaArb.sol.  A call is one EVM call frame: when a require fails   *)
(* or checked arithmetic overflows, every effect of the call is undone.    *)
(* Amounts are uint256 values, held as their digits in base 2^14 like the  *)
(* integers above.  The chain state is the asset's balances of the         *)
(* contract (arb), the aggregator (agg) and the owner, the contract's      *)
(* allowance to the aggregator, and the numbers of ArbExecuted and         *)
(* Withdrawn events.  The asset is an ERC20 token whose transfer reverts   *)
(* when the balance does not cover it.                                     *)
(***************************************************************************)
UintBits == 256
UintMax == BigSub(BigShiftLeft(<<1>>, UintBits), <<1>>)

\* the uint256 value of a small number
Uint(n) == BigOfNat(n)

\* (mutant: the result of the swap call is not required)
SwapSucceededMut(success) == TRUE

\* require(success, "Swap failed")
SwapSucceeded(success) == success

Reverted(c, reason) == [reverted |-> TRUE, reason |-> reason, post |-> c]

\* The outcome of executeOperation called by sender on the chain state c:
\* [reverted, reason, post].  swap is what aggregator.call(swapData) does: it
\* succeeds or not, pulls some of the approved amount from the contract and
\* sends some of the asset back.
executeOperation(c, sender, initiator, amount, premium, swap) ==
    LET balanceAfter == BigAdd(BigSub(c.arb, swap.pulled), swap.returned)
        repayAmount == BigAdd(amount, premium)
    IN  IF sender /= "POOL" THEN Reverted(c, "Not from Aave Pool")
        ELSE IF initiator /= "this" THEN Reverted(c, "Invalid initiator")
        ELSE IF ~SwapSucceeded(swap.success) THEN Reverted(c, "Swap failed")
        ELSE IF BigLess(UintMax, repayAmount) THEN Reverted(c, "Panic(0x11)")
        ELSE IF BigLess(balanceAfter, repayAmount)
        THEN Reverted(c, "Insufficient funds to repay loan")
        ELSE [reverted |-> FALSE, reason |-> "",
              post |-> [c EXCEPT !.arb = balanceAfter,
                                 !.agg = BigSub(BigAdd(c.agg, swap.pulled), swap.returned),
                                 !.allowance = BigSub(amount, swap.pulled),
                                 !.events = c.events + 1]]

\* withdraw(token) for the asset, line 112-117
withdraw(c, sender) ==
    IF sender /= "owner" THEN Reverted(c, "OwnableUnauthorizedAccount")
    ELSE IF c.arb = Uint(0) THEN Reverted(c, "No balance to withdraw")
    ELSE [reverted |-> FALSE, reason |-> "",
          post |-> [c EXCEPT !.arb = Uint(0),
                             !.owner = BigAdd(c.owner, c.arb),
                             !.withdrawn = c.withdrawn + 1]]

\* rescueERC20(token, amount) for the asset, line 125-128
rescueERC20(c, sender, amount) ==
    IF sender /= "owner" THEN Reverted(c, "OwnableUnauthorizedAccount")
    ELSE IF amount = Uint(0) THEN Reverted(c, "Amount must be greater than 0")
    ELSE IF BigLess(c.arb, amount) THEN Reverted(c, "ERC20InsufficientBalance")
    ELSE [reverted |-> FALSE, reason |-> "",
          post |-> [c EXCEPT !.arb = BigSub(c.arb, amount),
                             !.owner = BigAdd(c.owner, amount)]]

(***************************************************************************)
(* SpecArb: calls of executeOperation by the pool or by anyone else, of    *)
(* withdraw and rescueERC20 by the owner or by anyone else, and transfers  *)
(* of the asset to the contract (the pool funding a loan).  lastCall holds *)
(* the number of transactions so far and the last one.                     *)
(***************************************************************************)
MaxCalls == 2

LoanAmounts == {Uint(0), Uint(4), Uint(10), UintMax}
Premiums == {Uint(0), Uint(1), Uint(8)}
ReturnedAmounts == {Uint(0), Uint(5), Uint(11)}

\* what the aggregator's code may do when called: fail, or succeed after
\* pulling at most the approved amount and sending back what it holds
SwapBehaviours(c, amount) ==
    {[success |-> FALSE, pulled |-> Uint(0), returned |-> Uint(0)]}
    \cup {[success |-> TRUE, pulled |-> p, returned |-> r] :
             p \in {q \in {Uint(0), amount} : ~BigLess(c.arb, q)},
             r \in ReturnedAmounts}

ArbInit ==
    /\ chain \in [arb : {Uint(0), Uint(10)}, agg : {Uint(0), Uint(5)}, owner : {Uint(0)},
                  allowance : {Uint(0)}, events : {0}, withdrawn : {0}]
    /\ lastCall = [count |-> 0, call |-> Null]
    /\ calcIdle /\ quoteIdle /\ consIdle /\ genIdle /\ evalIdle /\ botIdle /\ zIdle /\ txIdle

ArbRest == <<calcVars, quoteVars, consVars, genVars, evalVars, botVars, zVars, txVars>>

\* the transaction that has just run
Ran(op, before, r, args) ==
    [count |-> lastCall.count + 1,
     call |-> Some([op |-> op, before |-> before, reverted |-> r.reverted,
                    reason |-> r.reason, args |-> args])]

\* a transfer of the asset to the contract; the asset's total supply is a
\* uint256
Fund ==
    /\ lastCall.count < MaxCalls
    /\ \E amount \in {Uint(10), UintMax} :
          /\ ~BigLess(UintMax, BigAdd(BigAdd(chain.arb, chain.agg),
                                      BigAdd(chain.owner, amount)))
          /\ chain' = [chain EXCEPT !.arb = BigAdd(@, amount)]
          /\ lastCall' = Ran("transfer", chain, [reverted |-> FALSE, reason |-> ""],
                             [amount |-> amount])
    /\ UNCHANGED ArbRest

\* line 75-105
ExecuteOperation ==
    /\ lastCall.count < MaxCalls
    /\ \E sender \in {"POOL", "other"}, initiator \in {"this", "other"},
          amount \in LoanAmounts, premium \in Premiums :
          \E swap \in SwapBehaviours(chain, amount) :
             /\ ~BigLess(BigAdd(chain.agg, swap.pulled), swap.returned)
             /\ LET r == executeOperation(chain, sender, initiator, amount, premium, swap)
                IN  /\ chain' = r.post
                    /\ lastCall' = Ran("executeOperation", chain, r,
                                       [sender |-> sender, initiator |-> initiator,
                                        amount |-> amount, premium |-> premium,
                                        swap |-> swap])
    /\ UNCHANGED ArbRest

\* line 112-117
Withdraw ==
    /\ lastCall.count < MaxCalls
    /\ \E sender \in {"owner", "other"} :
          LET r == withdraw(chain, sender)
          IN  /\ chain' = r.post
              /\ lastCall' = Ran("withdraw", chain, r, [sender |-> sender])
    /\ UNCHANGED ArbRest

\* line 125-128
RescueERC20 ==
    /\ lastCall.count < MaxCalls
    /\ \E sender \in {"owner", "other"}, amount \in {Uint(0), Uint(4), Uint(11)} :
          LET r == rescueERC20(chain, sender, amount)
          IN  /\ chain' = r.post
              /\ lastCall' = Ran("rescueERC20", chain, r,
                                 [sender |-> sender, amount |-> amount])
    /\ UNCHANGED ArbRest

ArbNext == Fund \/ ExecuteOperation \/ Withdraw \/ RescueERC20

SpecArb == ArbInit /\ [][ArbNext]_vars

Called == lastCall.call /= Null /\ lastCall.call[1].op = "executeOperation"
TheCall == lastCall.call[1]
BalanceAfterSwap ==
    BigAdd(BigSub(TheCall.before.arb, TheCall.args.swap.pulled), TheCall.args.swap.returned)
RepayAmount == BigAdd(TheCall.args.amount, TheCall.args.premium)

\* C18: a call of executeOperation that completes had, after the swap call,
\* a balance of at least amount + premium and a successful swap; a call
\* whose swap fails or whose balance is lower reverts.  A reverted call
\* leaves balances, allowance and events as they were.
C18_RepayOrRevert ==
    Called =>
        /\ ~TheCall.reverted =>
              /\ TheCall.args.swap.success
              /\ ~BigLess(BalanceAfterSwap, RepayAmount)
              /\ chain.arb = BalanceAfterSwap
              /\ chain.events = TheCall.before.events + 1
        /\ (~TheCall.args.swap.success \/ BigLess(BalanceAfterSwap, RepayAmount))
              => TheCall.reverted
        /\ TheCall.reverted => chain = TheCall.before

C18_Witness ==
    /\ Called
    /\ TheCall.reverted
    /\ TheCall.args.sender = "POOL" /\ TheCall.args.initiator = "this"
    /\ ~TheCall.args.swap.success
    /\ ~BigLess(TheCall.before.arb, RepayAmount)
    /\ TheCall.args.amount = Uint(10)
    /\ TheCall.before.arb = Uint(20)

=============================================================================
